---- MODULE Spec2Model ----
(***************************************************************************)
(* Route registration and dispatch engine of script.module.codequick       *)
(* (lib/codequick/support.py) with the parameter set of                    *)
(* lib/codequick/utils.py.                                                 *)
(*                                                                         *)
(* Text (module names, handler names, route paths, parameter keys) is a    *)
(* sequence of one-character strings, so that str.lower, str.strip,        *)
(* str.replace, str.split and startswith/endswith are computed character   *)
(* by character.                                                           *)
(***************************************************************************)
EXTENDS Integers, Sequences, FiniteSets, TLC

VARIABLES
    registered_routes,  \* Dispatcher.registered_routes: path -> Route
    handler_route,      \* callback.route of every declared handler
    route_count,        \* number of Route objects constructed so far
    selector,           \* Dispatcher.selector
    handle,             \* Dispatcher.handle
    params,             \* Dispatcher.params
    callback_params,    \* Dispatcher.callback_params
    metacalls,          \* Dispatcher.metacalls
    auto_sort,          \* module-level auto_sort set
    debug_msgs,         \* kodi_logger.debug_msgs
    last,               \* what the last operation did, as its caller and the host saw it
    op_count,           \* operations performed in this process so far
    path_in,            \* path derivation: the (module, name) under derivation
    path_out,           \* path derivation: the derived path
    query_in,           \* Params: the raw query handed to the constructor
    query_out,          \* Params: the constructed parameter set
    argv_in,            \* invocation parsing: the argument vector sys.argv
    argv_out,           \* invocation parsing: what utils.parse_sysargs returned
    trip_in,            \* URL round trip: the query mapping given to build_path
    trip_out,           \* URL round trip: the query component of the built URL
    folder_in,          \* folder listing: what the handler returned
    folder_out,         \* folder listing: the error raised and the host API calls
    resolver_in,        \* resolver: the controller's title, what the handler returned
    resolver_out,       \* resolver: the error raised and the item submitted to the host
    playlist,           \* the host's video playlist, xbmc.PlayList(PLAYLIST_VIDEO)
    rebind_in,          \* args_to_kwargs: the declared names, the arguments, the target
    rebind_out,         \* args_to_kwargs: the target mapping afterwards
    log_in,             \* log handler: which handler it is and the record last emitted
    kodi_log,           \* log handler: the calls of xbmc.log so far
    uuid_in,            \* validate_uuid: content id, require_playlist, cache, server
    uuid_out            \* validate_uuid: what it returned or raised, the cache afterwards

dispatcher_vars == <<registered_routes, handler_route, route_count, selector, handle,
                     params, callback_params, metacalls, auto_sort, debug_msgs, last,
                     op_count>>
path_vars == <<path_in, path_out>>
query_vars == <<query_in, query_out>>
argv_vars == <<argv_in, argv_out>>
trip_vars == <<trip_in, trip_out>>
folder_vars == <<folder_in, folder_out>>
resolver_vars == <<resolver_in, resolver_out, playlist>>
lib_vars == <<rebind_in, rebind_out, log_in, kodi_log, uuid_in, uuid_out>>
pure_vars == <<path_vars, query_vars, argv_vars, trip_vars, folder_vars, resolver_vars,
               lib_vars>>
vars == <<dispatcher_vars, pure_vars>>

----------------------------------------------------------------------------
(* Bounds *)

MaxModLen == 3      \* longest module name drawn for the path derivation
MaxOps == 3         \* operations performed in one process
MaxQueue == 2       \* longest deferred queue
MaxKeyLen == 2      \* longest parameter key drawn for Params
MaxPairs == 2       \* most key=value pairs in a drawn query

----------------------------------------------------------------------------
(* Text helpers *)

LowerChar(c) ==
    CASE c = "R" -> "r"
      [] c = "O" -> "o"
      [] c = "T" -> "t"
      [] c = "B" -> "b"
      [] c = "F" -> "f"
      [] c = "V" -> "v"
      [] c = "W" -> "w"
      [] OTHER -> c

Lower(s) == [i \in 1..Len(s) |-> LowerChar(s[i])]

RECURSIVE LStrip(_, _)
LStrip(s, c) == IF s # <<>> /\ Head(s) = c THEN LStrip(Tail(s), c) ELSE s

RECURSIVE RStrip(_, _)
RStrip(s, c) ==
    IF s # <<>> /\ s[Len(s)] = c THEN RStrip(SubSeq(s, 1, Len(s) - 1), c) ELSE s

Strip(s, c) == RStrip(LStrip(s, c), c)

Replace(s, a, b) == [i \in 1..Len(s) |-> IF s[i] = a THEN b ELSE s[i]]

StartsWith(s, c) == s # <<>> /\ s[1] = c
EndsWith(s, c) == s # <<>> /\ s[Len(s)] = c

RECURSIVE StringsUpTo(_, _)
StringsUpTo(chars, n) ==
    IF n = 0 THEN {<<>>}
    ELSE LET shorter == StringsUpTo(chars, n - 1)
         IN  shorter \cup {Append(s, c) : s \in shorter, c \in chars}

ROOT == <<"r", "o", "o", "t">>

----------------------------------------------------------------------------
(* Route path of a callback: Dispatcher.register, first statement *)

RoutePathLeadingOnly(module, name) ==
    IF Lower(name) = ROOT
    THEN Lower(name)
    ELSE Lower(Replace(LStrip(module, "_"), ".", "/") \o <<"/">> \o name)

RoutePath(module, name) ==
    IF Lower(name) = ROOT
    THEN Lower(name)
    ELSE Lower(Replace(Strip(module, "_"), ".", "/") \o <<"/">> \o name)

----------------------------------------------------------------------------
(* Mappings (Python dict) *)

EmptyMap == [k \in {} |-> 0]

Update(m, n) ==
    [k \in DOMAIN m \cup DOMAIN n |-> IF k \in DOMAIN n THEN n[k] ELSE m[k]]

Restrict(m, keys) == [k \in DOMAIN m \cap keys |-> m[k]]

----------------------------------------------------------------------------
(* Declared handlers and Route objects *)

MAIN == <<"_", "_", "m", "a", "i", "n", "_", "_">>
PKG == <<"a", ".", "B">>
X == <<"x">>
Y == <<"y">>
U == <<"_", "u", "_">>

\* The callbacks a plugin declares: functions and classes, with the
\* controller class a function is registered under.
Handlers ==
    { [id |-> "root", module |-> MAIN, name |-> ROOT,
       isclass |-> FALSE, hasrun |-> FALSE, cls |-> "Route", argnames |-> <<"plugin">>],
      [id |-> "V", module |-> PKG, name |-> <<"V">>,
       isclass |-> TRUE, hasrun |-> TRUE, cls |-> "Resolver", argnames |-> <<"self", X, Y>>],
      [id |-> "v", module |-> PKG, name |-> <<"v">>,
       isclass |-> TRUE, hasrun |-> FALSE, cls |-> "Route", argnames |-> <<"self">>],
      [id |-> "W", module |-> MAIN, name |-> <<"W">>,
       isclass |-> TRUE, hasrun |-> FALSE, cls |-> "Route", argnames |-> <<"self">>] }

HandlerIds == {h.id : h \in Handlers}

NoRoute ==
    [id |-> 0, parent |-> "", callback |-> "", entry |-> "", org_callback |-> "",
     path |-> <<>>]

\* Route.__init__
NewRoute(id, parent, callback, entry, org_callback, path) ==
    [id |-> id, parent |-> parent, callback |-> callback, entry |-> entry,
     org_callback |-> org_callback, path |-> path]

\* Dispatcher.register without the duplicate check
RegisterOverwriting(routes, count, h) ==
    LET path == RoutePath(h.module, h.name)
    IN  IF h.isclass /\ ~h.hasrun
        THEN [exc |-> "NameError", routes |-> routes, route |-> NoRoute,
              count |-> count, ret |-> ""]
        ELSE LET route == IF h.isclass
                          THEN NewRoute(count + 1, h.id, h.id, "run", h.id, path)
                          ELSE NewRoute(count + 1, h.cls, h.id, "call", h.id, path)
             IN  [exc |-> "none",
                  routes |-> [p \in DOMAIN routes \cup {path} |->
                                 IF p = path THEN route ELSE routes[p]],
                  route |-> route, count |-> count + 1, ret |-> h.id]

\* Dispatcher.register storing the class route before it looks for 'run'
RegisterClassUnchecked(routes, count, h) ==
    LET path == RoutePath(h.module, h.name)
    IN  IF path \in DOMAIN routes
        THEN [exc |-> "ValueError", routes |-> routes, route |-> NoRoute,
              count |-> count, ret |-> ""]
        ELSE LET route == IF h.isclass
                          THEN NewRoute(count + 1, h.id, h.id, "run", h.id, path)
                          ELSE NewRoute(count + 1, h.cls, h.id, "call", h.id, path)
                 stored == [p \in DOMAIN routes \cup {path} |->
                               IF p = path THEN route ELSE routes[p]]
             IN  IF h.isclass /\ ~h.hasrun
                 THEN [exc |-> "NameError", routes |-> stored, route |-> NoRoute,
                       count |-> count + 1, ret |-> ""]
                 ELSE [exc |-> "none", routes |-> stored, route |-> route,
                       count |-> count + 1, ret |-> h.id]

\* Dispatcher.register filing the route under the callback's bare name
RegisterUnderName(routes, count, h) ==
    LET path == RoutePath(h.module, h.name)
        key == Lower(h.name)
    IN  IF key \in DOMAIN routes
        THEN [exc |-> "ValueError", routes |-> routes, route |-> NoRoute,
              count |-> count, ret |-> ""]
        ELSE IF h.isclass /\ ~h.hasrun
        THEN [exc |-> "NameError", routes |-> routes, route |-> NoRoute,
              count |-> count, ret |-> ""]
        ELSE LET route == IF h.isclass
                          THEN NewRoute(count + 1, h.id, h.id, "run", h.id, path)
                          ELSE NewRoute(count + 1, h.cls, h.id, "call", h.id, path)
             IN  [exc |-> "none",
                  routes |-> [p \in DOMAIN routes \cup {key} |->
                                 IF p = key THEN route ELSE routes[p]],
                  route |-> route, count |-> count + 1, ret |-> h.id]

\* Dispatcher.register: the exception raised (or "none"), the registry, the
\* Route constructed and the value returned.
RegisterOutcome(routes, count, h) ==
    LET path == RoutePath(h.module, h.name)
    IN  IF path \in DOMAIN routes
        THEN [exc |-> "ValueError", routes |-> routes, route |-> NoRoute,
              count |-> count, ret |-> ""]
        ELSE IF h.isclass /\ ~h.hasrun
        THEN [exc |-> "NameError", routes |-> routes, route |-> NoRoute,
              count |-> count, ret |-> ""]
        ELSE LET route == IF h.isclass
                          THEN NewRoute(count + 1, h.id, h.id, "run", h.id, path)
                          ELSE NewRoute(count + 1, h.cls, h.id, "call", h.id, path)
             IN  [exc |-> "none",
                  routes |-> [p \in DOMAIN routes \cup {path} |->
                                 IF p = path THEN route ELSE routes[p]],
                  route |-> route, count |-> count + 1, ret |-> h.id]

----------------------------------------------------------------------------
(* Parameter decoding *)

\* A raw query: empty, form-encoded key=value pairs, or a "_pickle_=" /
\* "_json_=" blob holding a serialized mapping.
UnicodeVal(v) == [type |-> "unicode", val |-> v]
IntVal(v) == [type |-> "int", val |-> v]

EmptyQuery == [enc |-> "empty", pairs |-> <<>>, blob |-> EmptyMap]
FormQuery(pairs) == [enc |-> "form", pairs |-> pairs, blob |-> EmptyMap]
BlobQuery(m) == [enc |-> "blob", pairs |-> <<>>, blob |-> m]

\* urlparse.parse_qsl with its default keep_blank_values=False
ParseQsl(pairs) == SelectSeq(pairs, LAMBDA p : p[2] # "")

\* The loop of parse_qs keeping the first value of a repeated key
RECURSIVE ParseQsFromKeepFirst(_, _)
ParseQsFromKeepFirst(pairs, acc) ==
    IF pairs = <<>>
    THEN [exc |-> "none", map |-> acc]
    ELSE LET key == Head(pairs)[1]
             value == Head(pairs)[2]
         IN  IF key \notin DOMAIN acc
             THEN ParseQsFromKeepFirst(Tail(pairs),
                                       acc @@ (key :> [type |-> "unicode", val |-> value]))
             ELSE ParseQsFromKeepFirst(Tail(pairs), acc)

\* utils.parse_qs, the loop over the pairs of parse_qsl
RECURSIVE ParseQsFrom(_, _)
ParseQsFrom(pairs, acc) ==
    IF pairs = <<>>
    THEN [exc |-> "none", map |-> acc]
    ELSE LET key == Head(pairs)[1]
             value == Head(pairs)[2]
         IN  IF key \notin DOMAIN acc
             THEN ParseQsFrom(Tail(pairs), Update(acc, [k \in {key} |-> UnicodeVal(value)]))
             ELSE [exc |-> "ValueError", map |-> EmptyMap]

\* utils.parse_qs
ParseQs(pairs) == ParseQsFrom(ParseQsl(pairs), EmptyMap)

\* the decoding branch shared by Params.__init__ and Dispatcher.parse_params
Decode(raw) ==
    IF raw.enc = "blob" THEN [exc |-> "none", map |-> raw.blob] ELSE ParseQs(raw.pairs)

IsControlKeyPrefixOnly(key) == StartsWith(key, "_")

\* key.startswith("_") and key.endswith("_")
IsControlKey(key) == StartsWith(key, "_") /\ EndsWith(key, "_")

ControlKeys(m) == {k \in DOMAIN m : IsControlKey(k)}
CallbackKeys(m) == {k \in DOMAIN m : ~IsControlKey(k)}

\* utils.Params.__init__: the dict itself and its two partitions
ParamsInit(raw) ==
    IF raw.enc = "empty"
    THEN [exc |-> "none", dict |-> EmptyMap,
          callback_params |-> EmptyMap, support_params |-> EmptyMap]
    ELSE LET d == Decode(raw)
         IN  IF d.exc # "none"
             THEN [exc |-> d.exc, dict |-> EmptyMap,
                   callback_params |-> EmptyMap, support_params |-> EmptyMap]
             ELSE [exc |-> "none", dict |-> d.map,
                   callback_params |-> Restrict(d.map, CallbackKeys(d.map)),
                   support_params |-> Restrict(d.map, ControlKeys(d.map))]

----------------------------------------------------------------------------
(* Invocations and handler behaviour: the inputs of a dispatch *)

Slash(s) == <<"/">> \o s

\* The queries the host sends in the dispatcher runs.
Queries ==
    { EmptyQuery,
      FormQuery(<<<<U, "1">>, <<X, "2">>>>),
      FormQuery(<<<<X, "1">>, <<X, "2">>>>),
      BlobQuery([k \in {Y} |-> IntVal("1")]) }

\* The path component urlsplit yields for sys.argv[0] + sys.argv[2].
InvocationPaths ==
    { <<"/">>, Slash(<<"a", "/", "b", "/", "v">>), Slash(<<"a", "/", "b", "/", "w">>) }

\* sys.argv as the host passes it: the scheme of argv[0], the path and query of
\* argv[0] + argv[2], and the numeric handle argv[1].
Invocations ==
    [scheme : {"plugin"}, path : InvocationPaths, handle : {1}, query : Queries]
    \cup [scheme : {"script"}, path : {<<"/">>}, handle : {1}, query : {EmptyQuery}]

\* The deferred callables handler code schedules: one that returns, one that
\* raises, one that schedules another callable while the queue is drained.
Callbacks == {"ok", "fail", "sched"}

\* What the code around the framework does in one invocation: where (if
\* anywhere) it raises, what the handler body schedules and which sort methods
\* its list items add to auto_sort.
Behaviours ==
    [fail : {"none", "body"}, sched : {<<>>, <<"fail">>, <<"sched">>}, sorts : {{}}]
    \cup [fail : {"init", "process"}, sched : {<<>>}, sorts : {{}}]
    \cup [fail : {"none", "body"}, sched : {<<>>}, sorts : {{"label"}}]

FailureClass(stage) ==
    CASE stage = "init" -> "TypeError"
      [] stage = "body" -> "RuntimeError"
      [] stage = "process" -> "ValueError"
      [] OTHER -> "none"

----------------------------------------------------------------------------
(* Dispatcher *)

\* The dispatcher's session data and the module-level data reset with it.
DispatcherState ==
    [routes |-> registered_routes, selector |-> selector, handle |-> handle,
     params |-> params, callback_params |-> callback_params, metacalls |-> metacalls,
     auto_sort |-> auto_sort, debug_msgs |-> debug_msgs]

\* The selector and the parameter set the handler body finds when it runs.
NoBody == [selector |-> <<>>, params |-> EmptyMap]

\* What an operation's caller and the host observe of it, with what the
\* handler body scheduled and found.
NoObs ==
    [op |-> "none", handler |-> "", query |-> EmptyQuery, exc |-> "none",
     caught |-> "none", ret |-> "", notes |-> 0, crits |-> 0, errors |-> 0,
     trace |-> <<>>, called |-> FALSE, kwargs |-> EmptyMap, ran |-> <<>>,
     sched |-> <<>>, lazy |-> FALSE, body |-> NoBody]

\* logger.debug through KodiLogHandler.emit: level 10 is kept in debug_msgs
LogDebug(d, msg) == [d EXCEPT !.debug_msgs = Append(@, msg)]

IndexOf(s, c) ==
    IF \E i \in 1..Len(s) : s[i] = c
    THEN CHOOSE i \in 1..Len(s) : s[i] = c /\ \A j \in 1..(i - 1) : s[j] # c
    ELSE 0

\* route.split("/", 1)[-1]
SplitLast(s) ==
    IF IndexOf(s, "/") = 0 THEN s ELSE SubSeq(s, IndexOf(s, "/") + 1, Len(s))

\* The selector taken to be the path as urlsplit yields it
SelectorOfWholePath(path) == IF path = <<>> THEN <<"r", "o", "o", "t">> ELSE path

\* Dispatcher.parse_sysargs: the selector of a path
SelectorOf(path) == IF SplitLast(path) = <<>> THEN ROOT ELSE SplitLast(path)

\* Dispatcher.parse_params handing every parameter to the callback
ParseParamsUnfiltered(d, raw) ==
    LET dec == Decode(raw)
    IN  IF dec.exc # "none"
        THEN [exc |-> dec.exc, d |-> d]
        ELSE LET merged == Update(d.params, dec.map)
             IN  [exc |-> "none",
                  d |-> [d EXCEPT !.params = merged, !.callback_params = merged]]

\* Dispatcher.parse_params
ParseParams(d, raw) ==
    LET dec == Decode(raw)
    IN  IF dec.exc # "none"
        THEN [exc |-> dec.exc, d |-> d]
        ELSE LET merged == Update(d.params, dec.map)
             IN  [exc |-> "none",
                  d |-> [d EXCEPT !.params = merged,
                                  !.callback_params =
                                      Restrict(merged, {k \in DOMAIN merged : ~IsControlKey(k)})]]

\* Dispatcher.parse_sysargs testing the scheme after the selector and the handle
\* are stored
ParseSysargsStoringFirst(d, inv) ==
    LET d1 == [d EXCEPT !.selector = SelectorOf(inv.path), !.handle = inv.handle]
    IN  IF inv.scheme # "plugin"
        THEN [exc |-> "RuntimeError", d |-> d1]
        ELSE IF inv.query.enc = "empty"
             THEN [exc |-> "none", d |-> d1]
             ELSE ParseParams(d1, inv.query)

\* Dispatcher.parse_sysargs
ParseSysargs(d, inv) ==
    IF inv.scheme # "plugin"
    THEN [exc |-> "RuntimeError", d |-> d]
    ELSE LET d1 == [d EXCEPT !.selector = SelectorOf(inv.path), !.handle = inv.handle]
         IN  IF inv.query.enc = "empty"
             THEN [exc |-> "none", d |-> d1]
             ELSE ParseParams(d1, inv.query)

\* The loop popping the callables from the end of the list
DrainReversed(queue, i, ran, errors) ==
    [queue |-> queue,
     ran |-> [k \in 1..Len(queue) |-> queue[Len(queue) + 1 - k]],
     errors |-> Cardinality({k \in 1..Len(queue) : queue[k] = "fail"})]

\* The loop inside one try statement: the first callable that raises ends it
RECURSIVE DrainStopAtFailure(_, _, _, _)
DrainStopAtFailure(queue, i, ran, errors) ==
    IF i > Len(queue)
    THEN [queue |-> queue, ran |-> ran, errors |-> errors]
    ELSE LET c == queue[i]
             grown == IF c = "sched" /\ Len(queue) < MaxQueue
                      THEN Append(queue, "ok")
                      ELSE queue
         IN  IF c = "fail"
             THEN [queue |-> queue, ran |-> Append(ran, c), errors |-> errors + 1]
             ELSE DrainStopAtFailure(grown, i + 1, Append(ran, c), errors)

\* The loop over a copy of the list: what a callable appends is queued but not
\* run in this pass
DrainSnapshot(queue, i, ran, errors) ==
    LET appended == Cardinality({k \in 1..Len(queue) : queue[k] = "sched"})
        room == IF MaxQueue - Len(queue) < appended THEN MaxQueue - Len(queue)
                ELSE appended
    IN  [queue |-> queue \o [k \in 1..room |-> "ok"],
         ran |-> queue,
         errors |-> Cardinality({k \in 1..Len(queue) : queue[k] = "fail"})]

\* Dispatcher.run_metacalls, the loop: the list is iterated while callables may
\* append to it; nothing is removed from it.
RECURSIVE Drain(_, _, _, _)
Drain(queue, i, ran, errors) ==
    IF i > Len(queue)
    THEN [queue |-> queue, ran |-> ran, errors |-> errors]
    ELSE LET c == queue[i]
             grown == IF c = "sched" /\ Len(queue) < MaxQueue
                      THEN Append(queue, "ok")
                      ELSE queue
         IN  Drain(grown, i + 1, Append(ran, c), errors + (IF c = "fail" THEN 1 ELSE 0))

\* Dispatcher.run_metacalls
RunMetacalls(d) ==
    IF d.metacalls = <<>>
    THEN [d |-> d, ran |-> <<>>, errors |-> 0]
    ELSE LET r == Drain(d.metacalls, 1, <<>>, 0)
         IN  [d |-> LogDebug([d EXCEPT !.metacalls = r.queue], "callbacks_time"),
              ran |-> r.ran, errors |-> r.errors]

\* Dispatcher.register_delayed, once per callable the handler body schedules,
\* and the sort methods its list items add to auto_sort
HandlerEffects(d, beh) ==
    [d EXCEPT !.metacalls = @ \o beh.sched, !.auto_sort = @ \cup beh.sorts]

\* Dispatcher.dispatch, the except branch: one notification, one critical record
Contained(class, trace, called, kwargs) ==
    [NoObs EXCEPT !.caught = class, !.notes = 1, !.crits = 1, !.trace = trace,
                  !.called = called, !.kwargs = kwargs]

\* A lookup that answers an unknown selector with the root route
LookupOrRoot(routes, path) ==
    IF path \in DOMAIN routes THEN [exc |-> "none", route |-> routes[path]]
    ELSE IF ROOT \in DOMAIN routes THEN [exc |-> "none", route |-> routes[ROOT]]
    ELSE [exc |-> "KeyError", route |-> NoRoute]

\* Dispatcher.__getitem__
Lookup(routes, path) ==
    IF path \in DOMAIN routes
    THEN [exc |-> "none", route |-> routes[path]]
    ELSE [exc |-> "KeyError", route |-> NoRoute]

\* Dispatcher.dispatch running the deferred callbacks in a finally clause: they
\* run whether or not the controller, the handler or the results raised
RunRouteDrainAlways(d, beh) ==
    LET found == Lookup(d.routes, d.selector)
        d1 == LogDebug(LogDebug(d, "dispatching"), "callback_params")
        d2 == IF beh.fail = "init" THEN d1 ELSE HandlerEffects(d1, beh)
        m == RunMetacalls(d2)
        steps == CASE beh.fail = "init" -> <<"lookup", "instantiate">>
                   [] beh.fail = "body" -> <<"lookup", "instantiate", "handler">>
                   [] OTHER -> <<"lookup", "instantiate", "handler", "process">>
    IN  IF found.exc # "none"
        THEN [d |-> d, obs |-> Contained(found.exc, <<"lookup">>, FALSE, EmptyMap)]
        ELSE [d |-> m.d,
              obs |-> [NoObs EXCEPT
                          !.handler = IF beh.fail = "init" THEN "" ELSE found.route.callback,
                          !.caught = FailureClass(beh.fail),
                          !.notes = IF beh.fail = "none" THEN 0 ELSE 1,
                          !.crits = IF beh.fail = "none" THEN 0 ELSE 1,
                          !.trace = steps \o <<"drain">>,
                          !.called = beh.fail # "init",
                          !.kwargs = IF beh.fail = "init" THEN EmptyMap
                                     ELSE d1.callback_params,
                          !.ran = m.ran, !.errors = m.errors]]

\* Dispatcher.dispatch, the try statement: lookup, controller, callback, results,
\* and the deferred callbacks on success. The trace lists the steps entered.
RunRoute(d, beh) ==
    LET found == Lookup(d.routes, d.selector)
    IN  IF found.exc # "none"
        THEN [d |-> d, obs |-> Contained(found.exc, <<"lookup">>, FALSE, EmptyMap)]
        ELSE LET d1 == LogDebug(LogDebug(d, "dispatching"), "callback_params")
                 d2 == HandlerEffects(d1, beh)
                 kw == d1.callback_params
                 d3 == LogDebug(LogDebug(d2, "route_time"), "total_time")
                 m == RunMetacalls(d3)
             IN  CASE beh.fail = "init" ->
                        [d |-> d1,
                         obs |-> Contained(FailureClass("init"),
                                           <<"lookup", "instantiate">>, FALSE, EmptyMap)]
                   [] beh.fail = "body" ->
                        [d |-> d2,
                         obs |-> [Contained(FailureClass("body"),
                                            <<"lookup", "instantiate", "handler">>, TRUE, kw)
                                      EXCEPT !.handler = found.route.callback,
                                             !.sched = beh.sched]]
                   [] beh.fail = "process" ->
                        [d |-> d2,
                         obs |-> [Contained(FailureClass("process"),
                                            <<"lookup", "instantiate", "handler", "process">>,
                                            TRUE, kw)
                                      EXCEPT !.handler = found.route.callback,
                                             !.sched = beh.sched]]
                   [] OTHER ->
                        [d |-> m.d,
                         obs |-> [NoObs EXCEPT
                                     !.handler = found.route.callback,
                                     !.trace = <<"lookup", "instantiate", "handler",
                                                 "process", "drain">>,
                                     !.called = TRUE, !.kwargs = kw,
                                     !.ran = m.ran, !.errors = m.errors,
                                     !.sched = beh.sched]]

\* Dispatcher.dispatch with parse_sysargs inside the try statement's reach: a
\* failed parse does not end the dispatch
DispatchOutcomePastParse(d, inv, beh) ==
    LET parsed == ParseSysargs(d, inv)
        r == RunRoute(parsed.d, beh)
    IN  [d |-> r.d,
         obs |-> [r.obs EXCEPT !.op = "dispatch", !.query = inv.query, !.exc = parsed.exc,
                               !.trace = <<"parse">> \o @]]

\* Dispatcher.dispatch
DispatchOutcome(d, inv, beh) ==
    LET parsed == ParseSysargs(d, inv)
    IN  IF parsed.exc # "none"
        THEN [d |-> parsed.d,
              obs |-> [NoObs EXCEPT !.op = "dispatch", !.query = inv.query, !.exc = parsed.exc,
                                    !.trace = <<"parse">>]]
        ELSE LET r == RunRoute(parsed.d, beh)
             IN  [d |-> r.d,
                  obs |-> [r.obs EXCEPT !.op = "dispatch", !.query = inv.query,
                                        !.trace = <<"parse">> \o @]]

\* Dispatcher.reset dropping the registered routes with the session data
ResetAll(d) ==
    [d EXCEPT !.selector = ROOT, !.metacalls = <<>>, !.params = EmptyMap,
              !.routes = EmptyMap]

\* Dispatcher.reset restoring the selector alone
ResetSelectorOnly(d) == [d EXCEPT !.selector = ROOT]

\* Dispatcher.reset
ResetState(d) == [d EXCEPT !.selector = ROOT, !.metacalls = <<>>, !.params = EmptyMap]

Min(a, b) == IF a < b THEN a ELSE b

\* Route.args_to_kwargs zipping all of arg_names(), the controller's included
ArgsToKwargsFromFirstName(h, args, kwargs) ==
    LET n == IF Len(h.argnames) < Len(args) THEN Len(h.argnames) ELSE Len(args)
    IN  [k \in DOMAIN kwargs \cup {h.argnames[i] : i \in 1..n} |->
            IF \E i \in 1..n : h.argnames[i] = k
            THEN args[CHOOSE i \in 1..n : h.argnames[i] = k]
            ELSE kwargs[k]]

\* zip(callback_args, args) as a mapping
Zip(names, args) ==
    LET n == Min(Len(names), Len(args))
    IN  [k \in {names[i] : i \in 1..n} |->
            args[CHOOSE i \in 1..n : names[i] = k /\ \A j \in (i + 1)..n : names[j] # k]]

\* Route.args_to_kwargs
ArgsToKwargs(h, args, kwargs) == Update(kwargs, Zip(Tail(h.argnames), args))

\* Route.unittest_caller resetting before it runs the deferred callbacks
TestCallOutcomeResetFirst(d, route, h, args, kwargs, execute_delayed, lazy, beh) ==
    LET d1 == [d EXCEPT !.selector = route.path]
        d2 == IF args # <<>>
              THEN [d1 EXCEPT !.params = Update(@, Zip(Tail(h.argnames), args))]
              ELSE d1
        d3 == IF kwargs # EmptyMap THEN [d2 EXCEPT !.params = Update(@, kwargs)] ELSE d2
        d4 == [d3 EXCEPT !.metacalls = <<>>, !.auto_sort = {}, !.debug_msgs = <<>>,
                         !.selector = ROOT, !.params = EmptyMap]
    IN  IF beh.fail = "init"
        THEN [d |-> d3,
              obs |-> [NoObs EXCEPT !.op = "test", !.handler = h.id,
                                    !.exc = FailureClass("init"),
                                    !.trace = <<"instantiate">>]]
        ELSE [d |-> d4,
              obs |-> [NoObs EXCEPT
                          !.op = "test", !.handler = h.id,
                          !.exc = IF beh.fail = "body" THEN FailureClass("body") ELSE "none",
                          !.trace = <<"instantiate", "handler", "reset">>
                                    \o (IF execute_delayed THEN <<"drain">> ELSE <<>>),
                          !.called = TRUE,
                          !.kwargs = Update(Zip(Tail(h.argnames), args), kwargs),
                          !.sched = beh.sched, !.lazy = lazy,
                          !.body = [selector |-> d3.selector, params |-> d3.params]]]

\* Route.unittest_caller returning a generator as it is: its body runs when
\* the test iterates it, after the finally clause
TestCallOutcomeUnmaterialised(d, route, h, args, kwargs, execute_delayed, lazy, beh) ==
    LET d1 == [d EXCEPT !.selector = route.path]
        d2 == IF args # <<>>
              THEN [d1 EXCEPT !.params = Update(@, Zip(Tail(h.argnames), args))]
              ELSE d1
        d3 == IF kwargs # EmptyMap THEN [d2 EXCEPT !.params = Update(@, kwargs)] ELSE d2
        d4 == IF lazy THEN d3
              ELSE [d3 EXCEPT !.metacalls = @ \o beh.sched, !.auto_sort = @ \cup beh.sorts]
        ran == IF execute_delayed /\ d4.metacalls # <<>> THEN d4.metacalls ELSE <<>>
        d5 == [d4 EXCEPT !.metacalls = <<>>, !.auto_sort = {}, !.debug_msgs = <<>>,
                         !.selector = ROOT, !.params = EmptyMap]
        d6 == IF lazy
              THEN [d5 EXCEPT !.metacalls = @ \o beh.sched, !.auto_sort = @ \cup beh.sorts]
              ELSE d5
    IN  IF beh.fail = "init"
        THEN [d |-> d3,
              obs |-> [NoObs EXCEPT !.op = "test", !.handler = h.id,
                                    !.exc = FailureClass("init"),
                                    !.trace = <<"instantiate">>]]
        ELSE [d |-> d6,
              obs |-> [NoObs EXCEPT
                          !.op = "test", !.handler = h.id,
                          !.exc = IF beh.fail = "body" THEN FailureClass("body") ELSE "none",
                          !.trace = IF lazy
                                    THEN <<"instantiate">>
                                         \o (IF execute_delayed THEN <<"drain">> ELSE <<>>)
                                         \o <<"reset", "handler">>
                                    ELSE <<"instantiate", "handler">>
                                         \o (IF execute_delayed THEN <<"drain">> ELSE <<>>)
                                         \o <<"reset">>,
                          !.called = TRUE,
                          !.kwargs = Update(Zip(Tail(h.argnames), args), kwargs),
                          !.ran = ran,
                          !.errors = Cardinality({i \in 1..Len(ran) : ran[i] = "fail"}),
                          !.sched = beh.sched, !.lazy = lazy,
                          !.body = IF lazy THEN [selector |-> d5.selector, params |-> d5.params]
                                   ELSE [selector |-> d3.selector, params |-> d3.params]]]

\* Route.unittest_caller: the handler body, all of it also when the handler
\* is a generator function (list(results) is inside the try), runs between
\* the merge of the arguments and the finally clause.
TestCallOutcome(d, route, h, args, kwargs, execute_delayed, lazy, beh) ==
    LET d1 == [d EXCEPT !.selector = route.path]
        d2 == IF args # <<>>
              THEN [d1 EXCEPT !.params = ArgsToKwargs(h, args, @)]
              ELSE d1
        d3 == IF kwargs # EmptyMap THEN [d2 EXCEPT !.params = Update(@, kwargs)] ELSE d2
    IN  IF beh.fail = "init"
        THEN [d |-> d3,
              obs |-> [NoObs EXCEPT !.op = "test", !.handler = h.id,
                                    !.exc = FailureClass("init"),
                                    !.trace = <<"instantiate">>]]
        ELSE LET d4 == HandlerEffects(d3, beh)
                 m == IF execute_delayed
                      THEN RunMetacalls(d4)
                      ELSE [d |-> d4, ran |-> <<>>, errors |-> 0]
                 d5 == [ResetState([m.d EXCEPT !.debug_msgs = <<>>])
                            EXCEPT !.auto_sort = {}]
             IN  [d |-> d5,
                  obs |-> [NoObs EXCEPT
                              !.op = "test", !.handler = h.id,
                              !.exc = IF beh.fail = "body" THEN FailureClass("body")
                                      ELSE "none",
                              !.trace = <<"instantiate", "handler">>
                                        \o (IF execute_delayed THEN <<"drain">> ELSE <<>>)
                                        \o <<"reset">>,
                              !.called = TRUE,
                              !.kwargs = Update(Zip(Tail(h.argnames), args), kwargs),
                              !.ran = m.ran, !.errors = m.errors,
                              !.sched = beh.sched, !.lazy = lazy,
                              !.body = [selector |-> d3.selector, params |-> d3.params]]]

----------------------------------------------------------------------------
(* The dispatcher process: registrations, dispatches, test calls, resets *)

Install(d) ==
    /\ registered_routes' = d.routes
    /\ selector' = d.selector
    /\ handle' = d.handle
    /\ params' = d.params
    /\ callback_params' = d.callback_params
    /\ metacalls' = d.metacalls
    /\ auto_sort' = d.auto_sort
    /\ debug_msgs' = d.debug_msgs

DispatcherInit ==
    /\ registered_routes = EmptyMap
    /\ handler_route = [i \in HandlerIds |-> NoRoute]
    /\ route_count = 0
    /\ selector = ROOT
    /\ handle = -1
    /\ params = EmptyMap
    /\ callback_params = EmptyMap
    /\ metacalls = <<>>
    /\ auto_sort = {}
    /\ debug_msgs = <<>>
    /\ last = NoObs
    /\ op_count = 0

NotBuilt ==
    [exc |-> "unbuilt", dict |-> EmptyMap, callback_params |-> EmptyMap,
     support_params |-> EmptyMap]

NoLabel == [title |-> <<>>, part |-> 0]

NoItem == [path |-> <<>>, label |-> NoLabel]

NoResult == [shape |-> "none", url |-> <<>>, urls |-> <<>>, truthy |-> FALSE]

NoLoop == [used |-> FALSE, exc |-> "none", item |-> NoItem]

NotResolved == [exc |-> "unresolved", msg |-> "", resolved |-> NoItem, submitted |-> FALSE]

ResolverIdle ==
    /\ resolver_in = [title |-> <<"T">>, result |-> NoResult, media |-> <<>>,
                      next |-> EmptyMap, loop |-> NoLoop]
    /\ resolver_out = NotResolved
    /\ playlist = <<>>

RebindIdle ==
    /\ rebind_in = [argnames |-> <<"self">>, args |-> <<>>, target |-> EmptyMap]
    /\ rebind_out = [done |-> FALSE, target |-> EmptyMap]

LogIdle ==
    /\ log_in = [handler |-> "support", level |-> 0, msg |-> ""]
    /\ kodi_log = <<>>

NoCache == [ref |-> EmptyMap, channels |-> EmptyMap]

UuidIdle ==
    /\ uuid_in = [contentid |-> <<>>, require_playlist |-> TRUE, cache |-> NoCache,
                  known |-> FALSE]
    /\ uuid_out = [exc |-> "unvalidated", ret |-> <<>>, cache |-> NoCache]

LibIdle == RebindIdle /\ LogIdle /\ UuidIdle

\* Nothing derived, decoded, parsed, built or listed yet.
PathIdle == path_in = [module |-> MAIN, name |-> ROOT] /\ path_out = <<>>

QueryIdle == query_in = EmptyQuery /\ query_out = NotBuilt

NotParsed == [exc |-> "unparsed", selector |-> <<>>, handle |-> 0, params |-> NotBuilt]

ArgvIdle ==
    /\ argv_in = [scheme |-> "plugin", argc |-> 3, path |-> <<>>, handle |-> 1,
                  query |-> EmptyQuery]
    /\ argv_out = NotParsed

NoUrl == [built |-> FALSE, url |-> <<>>]

TripIdle == trip_in = EmptyMap /\ trip_out = NoUrl

NotListed == [exc |-> "unlisted", calls |-> <<>>]

FolderIdle ==
    /\ folder_in = [kind |-> "list", items |-> <<>>, manual |-> {}, autosort |-> TRUE,
                    detected |-> {}, views |-> [folder |-> "", video |-> ""],
                    listing |-> "absent", update |-> FALSE, changed |-> FALSE]
    /\ folder_out = NotListed

Init ==
    /\ DispatcherInit
    /\ PathIdle
    /\ QueryIdle
    /\ ArgvIdle
    /\ TripIdle
    /\ FolderIdle
    /\ ResolverIdle
    /\ LibIdle

\* A module declaring handler h is loaded: its decorator calls register.
Register(h) ==
    /\ op_count < MaxOps
    /\ op_count' = op_count + 1
    /\ LET out == RegisterOutcome(registered_routes, route_count, h)
       IN  /\ registered_routes' = out.routes
           /\ route_count' = out.count
           /\ handler_route' = IF out.exc = "none"
                               THEN [handler_route EXCEPT ![h.id] = out.route]
                               ELSE handler_route
           /\ last' = [NoObs EXCEPT !.op = "register", !.handler = h.id,
                                    !.exc = out.exc, !.ret = out.ret]
    /\ UNCHANGED <<selector, handle, params, callback_params, metacalls, auto_sort,
                   debug_msgs, pure_vars>>

\* The host invokes the plugin: run() / Dispatcher.dispatch.
Dispatch(inv, beh) ==
    /\ op_count < MaxOps
    /\ op_count' = op_count + 1
    /\ Len(metacalls) + Len(beh.sched) <= MaxQueue
    /\ LET out == DispatchOutcome(DispatcherState, inv, beh)
       IN  /\ Install(out.d)
           /\ last' = out.obs
    /\ UNCHANGED <<handler_route, route_count, pure_vars>>

\* A unit test calls callback.test(*args, **kwargs) of a registered handler.
TestCall(h, args, kwargs, execute_delayed, lazy, beh) ==
    /\ op_count < MaxOps
    /\ op_count' = op_count + 1
    /\ handler_route[h.id] # NoRoute
    /\ beh.fail # "process"
    /\ Len(metacalls) + Len(beh.sched) <= MaxQueue
    /\ LET out == TestCallOutcome(DispatcherState, handler_route[h.id], h, args, kwargs,
                                  execute_delayed, lazy, beh)
       IN  /\ Install(out.d)
           /\ last' = out.obs
    /\ UNCHANGED <<handler_route, route_count, pure_vars>>

\* dispatcher.reset() called on its own.
Reset ==
    /\ op_count < MaxOps
    /\ op_count' = op_count + 1
    /\ Install(ResetState(DispatcherState))
    /\ last' = [NoObs EXCEPT !.op = "reset"]
    /\ UNCHANGED <<handler_route, route_count, pure_vars>>

\* The (args, kwargs) a unit test passes, and whether the handler under test
\* is a generator function.
TestCalls ==
    { [args |-> <<>>, kwargs |-> EmptyMap, lazy |-> FALSE],
      [args |-> <<UnicodeVal("7")>>, kwargs |-> EmptyMap, lazy |-> FALSE],
      [args |-> <<>>, kwargs |-> [k \in {Y} |-> IntVal("2")], lazy |-> FALSE],
      [args |-> <<>>, kwargs |-> [k \in {Y} |-> IntVal("2")], lazy |-> TRUE] }

Next ==
    \/ \E h \in Handlers : Register(h)
    \/ \E inv \in Invocations, beh \in Behaviours : Dispatch(inv, beh)
    \/ \E h \in Handlers, call \in TestCalls, execute_delayed \in BOOLEAN,
          beh \in Behaviours :
            TestCall(h, call.args, call.kwargs, execute_delayed, call.lazy, beh)
    \/ Reset

Spec == Init /\ [][Next]_vars

----------------------------------------------------------------------------
(* Path derivation on its own: every module name and handler name *)

IsModuleName(s) ==
    /\ s # <<>>
    /\ s[1] # "."
    /\ s[Len(s)] # "."
    /\ \A i \in 1..(Len(s) - 1) : ~(s[i] = "." /\ s[i + 1] = ".")

ModuleNames == {s \in StringsUpTo({"_", ".", "a", "B"}, MaxModLen) : IsModuleName(s)}

HandlerNames ==
    { ROOT, <<"R", "o", "o", "t">>, <<"R", "O", "O", "T">>, <<"r", "o", "o">>,
      <<"F">>, <<"_", "f">> }

PathInit ==
    /\ DispatcherInit
    /\ path_in \in [module : ModuleNames, name : HandlerNames]
    /\ path_out = <<>>
    /\ QueryIdle
    /\ ArgvIdle
    /\ TripIdle
    /\ FolderIdle
    /\ ResolverIdle
    /\ LibIdle

DerivePath ==
    /\ path_out = <<>>
    /\ path_out' = RoutePath(path_in.module, path_in.name)
    /\ UNCHANGED <<dispatcher_vars, lib_vars, path_in, query_vars, argv_vars, trip_vars, folder_vars, resolver_vars>>

PathNext == DerivePath

PathSpec == PathInit /\ [][PathNext]_vars

----------------------------------------------------------------------------
(* The parameter set on its own: every raw query over the drawn keys *)

ParamKeys == StringsUpTo({"_", "a"}, MaxKeyLen)

RECURSIVE SeqsUpTo(_, _)
SeqsUpTo(S, n) ==
    IF n = 0 THEN {<<>>}
    ELSE LET shorter == SeqsUpTo(S, n - 1)
         IN  shorter \cup {Append(s, e) : s \in shorter, e \in S}

DrawnQueries ==
    {EmptyQuery}
    \cup {FormQuery(pairs) : pairs \in SeqsUpTo(ParamKeys \X {"", "1"}, MaxPairs)}
    \cup UNION { {BlobQuery(m) : m \in [keys -> {UnicodeVal("1"), IntVal("1")}]} :
                 keys \in {K \in SUBSET ParamKeys : Cardinality(K) <= MaxPairs} }

ParamsSpecInit ==
    /\ DispatcherInit
    /\ PathIdle
    /\ query_in \in DrawnQueries
    /\ query_out = NotBuilt
    /\ ArgvIdle
    /\ TripIdle
    /\ FolderIdle
    /\ ResolverIdle
    /\ LibIdle

\* utils.parse_sysargs builds Params(_params) from the raw query.
BuildParams ==
    /\ query_out = NotBuilt
    /\ query_out' = ParamsInit(query_in)
    /\ UNCHANGED <<dispatcher_vars, lib_vars, path_vars, query_in, argv_vars, trip_vars, folder_vars, resolver_vars>>

\* A newly constructed Dispatcher decodes the raw query: the last two
\* statements of Dispatcher.parse_sysargs.
ParseQuery ==
    /\ last.op = "none"
    /\ LET out == IF query_in.enc = "empty"
                  THEN [exc |-> "none", d |-> DispatcherState]
                  ELSE ParseParams(DispatcherState, query_in)
       IN  /\ Install(out.d)
           /\ last' = [NoObs EXCEPT !.op = "parse", !.query = query_in, !.exc = out.exc]
    /\ UNCHANGED <<handler_route, route_count, op_count, pure_vars>>

ParamsNext == BuildParams \/ ParseQuery

ParamsSpec == ParamsSpecInit /\ [][ParamsNext]_vars

----------------------------------------------------------------------------
(* Decoding into a dispatcher that may hold an earlier invocation's parameters *)

\* The query of the earlier invocation.
EarlierQuery == BlobQuery([k \in {<<"a">>, <<"_", "_">>} |-> IntVal("0")])

\* The last two statements of Dispatcher.parse_sysargs applied to raw.
DecodeStep(raw, name) ==
    /\ LET out == IF raw.enc = "empty"
                  THEN [exc |-> "none", d |-> DispatcherState]
                  ELSE ParseParams(DispatcherState, raw)
       IN  /\ Install(out.d)
           /\ last' = [NoObs EXCEPT !.op = name, !.query = raw, !.exc = out.exc]
    /\ UNCHANGED <<handler_route, route_count, op_count, pure_vars>>

ParseEarlier == last.op = "none" /\ DecodeStep(EarlierQuery, "earlier")

ParseLater == last.op \in {"none", "earlier"} /\ DecodeStep(query_in, "parse")

DecodeNext == BuildParams \/ ParseEarlier \/ ParseLater

DecodeSpec == ParamsSpecInit /\ [][DecodeNext]_vars

----------------------------------------------------------------------------
(* Invocation parsing: every drawn argument vector, in both parsers *)

MaxPathLen == 3     \* longest path drawn for an argument vector

DrawnPaths == StringsUpTo({"/", "a"}, MaxPathLen)

\* urlsplit of "plugin://<id>" + rest: the path is empty or starts with "/".
PluginPaths == {path \in DrawnPaths : path = <<>> \/ path[1] = "/"}

ArgvQueries == {EmptyQuery, FormQuery(<<<<X, "1">>>>)}

\* sys.argv: a plugin invocation [url, handle, "?query"], or a script
\* invocation [script, "selector?query"] with or without a third argument.
DrawnArgvs ==
    [scheme : {"plugin"}, argc : {3}, path : PluginPaths, handle : {1}, query : ArgvQueries]
    \cup [scheme : {"script"}, argc : {2, 3}, path : DrawnPaths, handle : {1},
          query : ArgvQueries]

\* utils.parse_sysargs
UtilsParseSysargs(argv) ==
    IF argv.scheme # "plugin" /\ argv.argc # 2
    THEN [exc |-> "RuntimeError", selector |-> <<>>, handle |-> 0, params |-> NotBuilt]
    ELSE LET got == ParamsInit(argv.query)
             sel == IF argv.path = <<>> \/ argv.path = <<"/">> THEN ROOT
                    ELSE IF StartsWith(argv.path, "/") THEN Tail(argv.path)
                    ELSE argv.path
         IN  [exc |-> got.exc,
              selector |-> IF got.exc = "none" THEN sel ELSE <<>>,
              handle |-> IF got.exc # "none" THEN 0
                         ELSE IF argv.scheme = "plugin" THEN argv.handle ELSE -1,
              params |-> IF got.exc = "none" THEN got ELSE NotBuilt]

\* The invocation the process served before the drawn one.
EarlierInvocation ==
    [scheme |-> "plugin", argc |-> 3, path |-> <<"/", "a">>, handle |-> 2,
     query |-> EarlierQuery]

\* What the handlers do in these runs: return, or raise in the body.
InvocationBehaviours ==
    {beh \in Behaviours : beh.fail \in {"none", "body"} /\ beh.sched = <<>> /\ beh.sorts = {}}

InvocationInit ==
    /\ DispatcherInit
    /\ PathIdle
    /\ QueryIdle
    /\ argv_in \in DrawnArgvs
    /\ argv_out = NotParsed
    /\ TripIdle
    /\ FolderIdle
    /\ ResolverIdle
    /\ LibIdle

\* A script of the older library calls utils.parse_sysargs().
UtilsParse ==
    /\ argv_out = NotParsed
    /\ argv_out' = UtilsParseSysargs(argv_in)
    /\ UNCHANGED <<dispatcher_vars, lib_vars, path_vars, query_vars, argv_in, trip_vars, folder_vars, resolver_vars>>

InvocationNext ==
    \/ \E h \in Handlers : Register(h)
    \/ \E beh \in InvocationBehaviours : Dispatch(EarlierInvocation, beh)
    \/ \E beh \in InvocationBehaviours : Dispatch(argv_in, beh)
    \/ UtilsParse

InvocationSpec == InvocationInit /\ [][InvocationNext]_vars

----------------------------------------------------------------------------
(* The URL round trip: build_path in one process, parse_sysargs in the next *)

\* ord() and chr() on the characters of the drawn keys and values
Chars ==
    {"_", "a", "0", "1", "2", "7", " ", "-", "T", "b", "c", "e", "i", "k", "l", "o",
     "p", "t", "x", "y"}

Ord(c) ==
    CASE c = "_" -> 95
      [] c = "a" -> 97
      [] c = "0" -> 48
      [] c = "1" -> 49
      [] c = "2" -> 50
      [] c = "7" -> 55
      [] c = " " -> 32
      [] c = "-" -> 45
      [] c = "T" -> 84
      [] c = "b" -> 98
      [] c = "c" -> 99
      [] c = "e" -> 101
      [] c = "i" -> 105
      [] c = "k" -> 107
      [] c = "l" -> 108
      [] c = "o" -> 111
      [] c = "p" -> 112
      [] c = "t" -> 116
      [] c = "x" -> 120
      [] c = "y" -> 121

\* A unicode value of more than one character, held as its characters.
TextVal(t) == [type |-> "text", val |-> t]

Chr(n) == CHOOSE c \in Chars : Ord(c) = n

\* pickle.dumps(query, protocol=2) of a dict with str keys and unicode or
\* small int values: PROTO 2, EMPTY_DICT, MARK, the
\* items (SHORT_BINSTRING key; BININT1 or BINUNICODE value), SETITEMS, STOP.
\* The memo opcodes, which loads ignores, are left out.
PickleHeader == <<128, 2, 125, 40>>

PickleTrailer == <<117, 46>>

DumpKey(k) == <<85, Len(k)>> \o [i \in 1..Len(k) |-> Ord(k[i])]

DumpValue(v) ==
    CASE v.type = "int" -> <<75, Ord(v.val) - 48>>
      [] v.type = "unicode" -> <<88, 1, 0, 0, 0, Ord(v.val)>>
      [] v.type = "text" ->
            <<88, Len(v.val), 0, 0, 0>> \o [i \in 1..Len(v.val) |-> Ord(v.val[i])]

RECURSIVE DumpItems(_)
DumpItems(m) ==
    IF DOMAIN m = {} THEN <<>>
    ELSE LET k == CHOOSE key \in DOMAIN m : TRUE
         IN  DumpKey(k) \o DumpValue(m[k]) \o DumpItems(Restrict(m, DOMAIN m \ {k}))

Dumps(m) == PickleHeader \o DumpItems(m) \o PickleTrailer

\* pickle.loads on such a byte string
RECURSIVE LoadItems(_, _, _)
LoadItems(b, pos, acc) ==
    IF pos + 1 > Len(b) THEN [exc |-> "EOFError", map |-> EmptyMap]
    ELSE IF b[pos] = 117
    THEN IF pos + 1 = Len(b) /\ b[pos + 1] = 46
         THEN [exc |-> "none", map |-> acc]
         ELSE [exc |-> "UnpicklingError", map |-> EmptyMap]
    ELSE IF b[pos] # 85 \/ pos + 3 + b[pos + 1] > Len(b)
    THEN [exc |-> "UnpicklingError", map |-> EmptyMap]
    ELSE LET n == b[pos + 1]
             key == [i \in 1..n |-> Chr(b[pos + 1 + i])]
             at == pos + 2 + n
         IN  IF b[at] = 75
             THEN LoadItems(b, at + 2,
                            Update(acc, [k \in {key} |-> IntVal(Chr(b[at + 1] + 48))]))
             ELSE IF b[at] = 88 /\ at + 4 + b[at + 1] <= Len(b)
             THEN LET size == b[at + 1]
                      value == IF size = 1 THEN UnicodeVal(Chr(b[at + 5]))
                               ELSE TextVal([i \in 1..size |-> Chr(b[at + 4 + i])])
                  IN  LoadItems(b, at + 5 + size, Update(acc, [k \in {key} |-> value]))
             ELSE [exc |-> "UnpicklingError", map |-> EmptyMap]

Loads(b) ==
    IF Len(b) < Len(PickleHeader) \/ SubSeq(b, 1, Len(PickleHeader)) # PickleHeader
    THEN [exc |-> "UnpicklingError", map |-> EmptyMap]
    ELSE LoadItems(b, Len(PickleHeader) + 1, EmptyMap)

\* binascii.hexlify and binascii.unhexlify
HexDigits ==
    <<"0", "1", "2", "3", "4", "5", "6", "7", "8", "9", "a", "b", "c", "d", "e", "f">>

IsHexDigit(c) == \E i \in 1..16 : HexDigits[i] = c

HexValue(c) == (CHOOSE i \in 1..16 : HexDigits[i] = c) - 1

Hexlify(b) ==
    [i \in 1..(2 * Len(b)) |->
        IF i % 2 = 1 THEN HexDigits[(b[(i + 1) \div 2] \div 16) + 1]
        ELSE HexDigits[(b[i \div 2] % 16) + 1]]

Unhexlify(t) ==
    IF Len(t) % 2 # 0 \/ \E i \in 1..Len(t) : ~IsHexDigit(t[i])
    THEN [exc |-> "TypeError", bytes |-> <<>>]
    ELSE [exc |-> "none",
          bytes |-> [i \in 1..(Len(t) \div 2) |->
                        16 * HexValue(t[2 * i - 1]) + HexValue(t[2 * i])]]

PicklePrefix == <<"_", "p", "i", "c", "k", "l", "e", "_", "=">>

\* build_path marking the serialized query "_json_=", as utils.Params expects
BuildPathJsonPrefix(d, h, route, args, query, extra) ==
    LET q1 == IF args # <<>> THEN query @@ Zip(Tail(h.argnames), args) ELSE query
        q2 == IF DOMAIN extra # {} THEN extra @@ d.params ELSE q1
        text == IF DOMAIN q2 # {}
                THEN <<"_", "j", "s", "o", "n", "_", "=">> \o Hexlify(Dumps(q2))
                ELSE <<>>
    IN  <<"/">> \o route.path \o (IF text # <<>> THEN <<"?">> \o text ELSE <<>>)

\* build_path: the part of the URL after "plugin://<plugin id>". query is the
\* mapping the caller passes (a caller that passes args passes one).
BuildPath(d, h, route, args, query, extra) ==
    LET q1 == IF args # <<>> THEN ArgsToKwargs(h, args, query) ELSE query
        q2 == IF DOMAIN extra # {} THEN Update(d.params, extra) ELSE q1
        text == IF DOMAIN q2 # {} THEN PicklePrefix \o Hexlify(Dumps(q2)) ELSE <<>>
    IN  Slash(route.path) \o (IF text # <<>> THEN <<"?">> \o text ELSE <<>>)

\* urlsplit of "plugin://<plugin id>" + rest: the path runs to the first "?" or
\* "#", the query from the "?" to the "#".
UrlSplit(rest) ==
    LET hash == IndexOf(rest, "#")
        body == IF hash = 0 THEN rest ELSE SubSeq(rest, 1, hash - 1)
        mark == IndexOf(body, "?")
    IN  IF mark = 0
        THEN [path |-> body, query |-> <<>>]
        ELSE [path |-> SubSeq(body, 1, mark - 1),
              query |-> SubSeq(body, mark + 1, Len(body))]

\* str.split(sep) on a text
RECURSIVE SplitOn(_, _)
SplitOn(t, sep) ==
    IF IndexOf(t, sep) = 0 THEN <<t>>
    ELSE <<SubSeq(t, 1, IndexOf(t, sep) - 1)>>
         \o SplitOn(SubSeq(t, IndexOf(t, sep) + 1, Len(t)), sep)

\* A value of a key=value field as the queries above hold it: blank, its one
\* character, or the token "text" for a longer value.
FieldValue(v) == IF v = <<>> THEN "" ELSE IF Len(v) = 1 THEN v[1] ELSE "text"

\* The fields of a form-encoded text, as parse_qsl splits it.
FormFields(t) ==
    LET pieces == SelectSeq(SplitOn(t, "&"), LAMBDA piece : piece # <<>>)
    IN  [i \in 1..Len(pieces) |->
            LET eq == IndexOf(pieces[i], "=")
            IN  IF eq = 0 THEN <<pieces[i], "">>
                ELSE <<SubSeq(pieces[i], 1, eq - 1),
                       FieldValue(SubSeq(pieces[i], eq + 1, Len(pieces[i])))>>]

\* Dispatcher.parse_params, its first statement: what the raw query text is
\* taken to be.
ReadQueryText(t) ==
    IF t = <<>> THEN [exc |-> "none", query |-> EmptyQuery]
    ELSE IF Len(t) >= Len(PicklePrefix) /\ SubSeq(t, 1, Len(PicklePrefix)) = PicklePrefix
    THEN LET raw == Unhexlify(SubSeq(t, Len(PicklePrefix) + 1, Len(t)))
             got == Loads(raw.bytes)
         IN  IF raw.exc # "none" THEN [exc |-> raw.exc, query |-> EmptyQuery]
             ELSE IF got.exc # "none" THEN [exc |-> got.exc, query |-> EmptyQuery]
             ELSE [exc |-> "none", query |-> BlobQuery(got.map)]
    ELSE [exc |-> "none", query |-> FormQuery(FormFields(t))]

\* The query mappings handed to build_path.
TripMappings ==
    UNION { [keys -> {UnicodeVal("1"), IntVal("1")}] :
            keys \in {K \in SUBSET ParamKeys : Cardinality(K) <= MaxPairs} }

TripInit ==
    /\ DispatcherInit
    /\ PathIdle
    /\ QueryIdle
    /\ ArgvIdle
    /\ trip_in \in TripMappings
    /\ trip_out = NoUrl
    /\ FolderIdle
    /\ ResolverIdle
    /\ LibIdle

RootHandler == CHOOSE h \in Handlers : h.id = "root"

\* A handler builds the URL of the root route with the query mapping trip_in.
BuildUrl ==
    /\ ~trip_out.built
    /\ trip_out' = [built |-> TRUE,
                    url |-> BuildPath(DispatcherState, RootHandler,
                                      [path |-> ROOT], <<>>, trip_in, EmptyMap)]
    /\ UNCHANGED <<dispatcher_vars, lib_vars, path_vars, query_vars, argv_vars, trip_in, folder_vars, resolver_vars>>

\* The host invokes the plugin with the built URL; the new process parses it.
InvokeUrl ==
    /\ trip_out.built
    /\ last.op = "none"
    /\ LET parts == UrlSplit(trip_out.url)
           read == ReadQueryText(parts.query)
           out == IF read.exc # "none"
                  THEN [exc |-> read.exc,
                        d |-> [DispatcherState EXCEPT !.selector = SelectorOf(parts.path),
                                                      !.handle = 1]]
                  ELSE ParseSysargs(DispatcherState,
                                    [scheme |-> "plugin", path |-> parts.path,
                                     handle |-> 1, query |-> read.query])
       IN  /\ Install(out.d)
           /\ last' = [NoObs EXCEPT !.op = "invoke", !.exc = out.exc]
    /\ UNCHANGED <<handler_route, route_count, op_count, pure_vars>>

TripNext == BuildUrl \/ InvokeUrl

TripSpec == TripInit /\ [][TripNext]_vars

----------------------------------------------------------------------------
(* The folder listing of api.Route: every drawn handler result *)

MaxItems == 3       \* most items a drawn handler result holds

\* What a folder handler yields: a falsy placeholder, or a list item that
\* closes to a folder tuple or to a non-folder tuple.
ItemKinds == {"falsy", "folder", "video"}

\* The _updatelisting_ parameter of the invocation: absent, True or False.
ListingParams == {"absent", "true", "false"}

\* Route.__init__: self.params.get("_updatelisting_", False)
UpdateListing(listing) == IF listing = "absent" THEN FALSE ELSE listing = "true"

\* A handler that raises before it returns, and a generator that raises after
\* it yielded some items ("raise" marks the point where it does).
FailingResults ==
    [kind : {"raised"}, items : {<<>>}, manual : {{}}, autosort : {TRUE},
     detected : {{}}, views : {[folder |-> "", video |-> ""]}, listing : {"absent"},
     update : {FALSE}, changed : {FALSE}]
    \cup { [kind |-> "generator", items |-> Append(i, "raise"), manual |-> {},
            autosort |-> TRUE, detected |-> {}, views |-> [folder |-> "", video |-> ""],
            listing |-> "absent", update |-> FALSE, changed |-> FALSE] :
              i \in SeqsUpTo(ItemKinds, MaxItems - 1) }

\* What the handler returns (None, a list, or a generator), the controller's
\* _manual_sort, _autosort and update_listing as Route.__init__ leaves them,
\* the methods detected while the items were built, the view modes set for the
\* skin, and whether the handler assigned update_listing.
FolderResults ==
    [kind : {"none"}, items : {<<>>}, manual : {{}}, autosort : {TRUE},
     detected : {{}}, views : {[folder |-> "", video |-> ""]}, listing : {"absent"},
     update : {FALSE}, changed : {FALSE}]
    \cup { [kind |-> k, items |-> i, manual |-> {}, autosort |-> TRUE, detected |-> d,
            views |-> v, listing |-> l, update |-> UpdateListing(l), changed |-> FALSE] :
              k \in {"list", "generator"}, i \in SeqsUpTo(ItemKinds, MaxItems),
              d \in {{}, {1}}, v \in [folder : {"", "50"}, video : {"", "51"}],
              l \in ListingParams }
    \cup FailingResults

\* The arguments handlers give Route.add_sort_methods.
SortRequests == [methods : {{}, {3}, {1, 3}}, override : BOOLEAN]

\* Route.add_sort_methods
AddSortRequest(res, methods, override) ==
    [res EXCEPT !.autosort = @ /\ ~override, !.manual = @ \cup methods]

\* One call of the host API.
HostCall(api, batch, text, num, flag) ==
    [api |-> api, batch |-> batch, text |-> text, num |-> num, flag |-> flag]

\* "not raw_listitems": None and an empty list are falsy, a generator never is.
IsFalsyResult(res) == res.kind = "none" \/ (res.kind = "list" /\ res.items = <<>>)

\* sorted(manual) as a sequence
RECURSIVE SortedSeq(_)
SortedSeq(S) ==
    IF S = {} THEN <<>>
    ELSE LET least == CHOOSE x \in S : \A y \in S : x <= y
         IN  <<least>> \o SortedSeq(S \ {least})

\* Route.__content_type
ContentType(res, isfolder) ==
    LET view_mode == IF isfolder THEN res.views.folder ELSE res.views.video
    IN  <<HostCall("setContent", <<>>, "albums", 0, FALSE),
          HostCall("setPluginCategory", <<>>, "", 0, FALSE),
          HostCall("setting", <<>>, IF isfolder THEN "folder.view" ELSE "video.view",
                   0, isfolder)>>
        \o (IF view_mode # ""
            THEN <<HostCall("Container.SetViewMode", <<>>, view_mode, 0, isfolder)>>
            ELSE <<>>)

\* Route.__add_listitems taking half the items to be enough folders
AddListitemsFromHalf(res) ==
    LET listitems == SelectSeq(res.items, LAMBDA item : item # "falsy")
        folder_counter == Cardinality({i \in 1..Len(listitems) : listitems[i] = "folder"})
        isfolder == 2 * folder_counter >= Len(listitems)
    IN  <<HostCall("addDirectoryItems", listitems, "", Len(listitems), FALSE)>>
        \o ContentType(res, isfolder)

\* Route.__add_listitems handing the host one tuple per call
AddListitemsOneByOne(res) ==
    LET listitems == SelectSeq(res.items, LAMBDA item : item # "falsy")
        folder_counter == Cardinality({i \in 1..Len(listitems) : listitems[i] = "folder"})
        isfolder == folder_counter > (Len(listitems) \div 2)
    IN  [i \in 1..Len(listitems) |->
            HostCall("addDirectoryItems", <<listitems[i]>>, "", 1, FALSE)]
        \o ContentType(res, isfolder)

\* Route.__add_listitems after its first test
AddListitems(res) ==
    LET listitems == SelectSeq(res.items, LAMBDA item : item # "falsy")
        folder_counter == Cardinality({i \in 1..Len(listitems) : listitems[i] = "folder"})
        isfolder == folder_counter > (Len(listitems) \div 2)
    IN  <<HostCall("addDirectoryItems", listitems, "", Len(listitems), FALSE)>>
        \o ContentType(res, isfolder)

\* Route.__add_sort_methods merging the detected methods whatever _autosort is
AddSortMethodsAlwaysMerging(res) ==
    LET manual == res.manual \cup res.detected
        ordered == SortedSeq(manual)
    IN  IF manual # {}
        THEN [i \in 1..Len(ordered) |-> HostCall("addSortMethod", <<>>, "", ordered[i], FALSE)]
        ELSE <<HostCall("addSortMethod", <<>>, "SORT_METHOD_UNSORTED", 0, FALSE)>>

\* Route.__add_sort_methods without its else branch
AddSortMethodsNoFallback(res) ==
    LET manual == IF res.autosort THEN res.manual \cup res.detected ELSE res.manual
        ordered == SortedSeq(manual)
    IN  [i \in 1..Len(ordered) |-> HostCall("addSortMethod", <<>>, "", ordered[i], FALSE)]

\* Route.__add_sort_methods
AddSortMethods(res) ==
    LET manual == IF res.autosort THEN res.manual \cup res.detected ELSE res.manual
        ordered == SortedSeq(manual)
    IN  IF manual # {}
        THEN [i \in 1..Len(ordered) |-> HostCall("addSortMethod", <<>>, "", ordered[i], FALSE)]
        ELSE <<HostCall("addSortMethod", <<>>, "SORT_METHOD_UNSORTED", 0, FALSE)>>

\* Route.__end_directory passing the parameter instead of the attribute
EndDirectoryFromParam(res, success) ==
    <<HostCall("endOfDirectory", <<>>, IF success THEN "True" ELSE "False", 0,
               UpdateListing(res.listing))>>

\* Route.__end_directory
EndDirectory(res, success) ==
    <<HostCall("endOfDirectory", <<>>, IF success THEN "True" ELSE "False", 0, res.update)>>

\* The handler raised, or the loop of __add_listitems reaches a point
\* where the generator raises.
HandlerRaises(res) ==
    res.kind = "raised" \/ \E i \in 1..Len(res.items) : res.items[i] = "raise"

\* Route.execute_route closing the directory, unsuccessfully, when it fails
ExecuteRouteClosingOnFailure(res) ==
    IF HandlerRaises(res) \/ IsFalsyResult(res)
    THEN [exc |-> "RuntimeError", calls |-> EndDirectory(res, FALSE)]
    ELSE [exc |-> "none",
          calls |-> AddListitems(res) \o AddSortMethods(res) \o EndDirectory(res, TRUE)]

\* Route.execute_route on the handler's result: the exception of the handler
\* or of its generator leaves before any call of the host
ExecuteRoute(res) ==
    IF HandlerRaises(res)
    THEN [exc |-> FailureClass("body"), calls |-> <<>>]
    ELSE IF IsFalsyResult(res)
    THEN [exc |-> "RuntimeError", calls |-> <<>>]
    ELSE [exc |-> "none",
          calls |-> AddListitems(res) \o AddSortMethods(res) \o EndDirectory(res, TRUE)]

FolderInit ==
    /\ DispatcherInit
    /\ PathIdle
    /\ QueryIdle
    /\ ArgvIdle
    /\ TripIdle
    /\ folder_in \in FolderResults
    /\ folder_out = NotListed
    /\ ResolverIdle
    /\ LibIdle

\* The controller lists what its handler returned.
ListFolder ==
    /\ folder_out = NotListed
    /\ folder_out' = ExecuteRoute(folder_in)
    /\ UNCHANGED <<dispatcher_vars, lib_vars, path_vars, query_vars, argv_vars, trip_vars, folder_in, resolver_vars>>

\* The handler body calls plugin.add_sort_methods(*methods, override=...).
RequestSort(methods, override) ==
    /\ folder_out = NotListed
    /\ folder_in.kind # "none"
    /\ folder_in' = AddSortRequest(folder_in, methods, override)
    /\ UNCHANGED <<dispatcher_vars, lib_vars, path_vars, query_vars, argv_vars, trip_vars, folder_out, resolver_vars>>

\* The handler body assigns plugin.update_listing = True.
SetUpdateListing ==
    /\ folder_out = NotListed
    /\ folder_in.kind # "none"
    /\ ~folder_in.changed
    /\ folder_in' = [folder_in EXCEPT !.update = TRUE, !.changed = TRUE]
    /\ UNCHANGED <<dispatcher_vars, lib_vars, path_vars, query_vars, argv_vars, trip_vars, folder_out, resolver_vars>>

FolderNext ==
    \/ \E req \in SortRequests : RequestSort(req.methods, req.override)
    \/ SetUpdateListing
    \/ ListFolder

FolderSpec == FolderInit /\ [][FolderNext]_vars

----------------------------------------------------------------------------
(* The resolver of api.Resolver: every drawn handler result *)

MaxUrls == 3        \* most elements a drawn sequence result holds

\* The elements of a sequence result: a URL, or a (url, title) pair.
UrlElements ==
    { [pair |-> FALSE, url |-> <<"1">>, title |-> <<>>],
      [pair |-> TRUE, url |-> <<"2">>, title |-> <<"t">>] }

\* What a resolver handler returns: None, a string, a list or tuple, an
\* xbmcgui.ListItem, or an object of another type (truthy or falsy).
ResolverResults ==
    {NoResult}
    \cup [shape : {"str"}, url : {<<>>, <<"1">>}, urls : {<<>>}, truthy : {FALSE}]
    \cup [shape : {"list"}, url : {<<>>}, urls : SeqsUpTo(UrlElements, MaxUrls),
          truthy : {FALSE}]
    \cup [shape : {"listitem"}, url : {<<"1">>}, urls : {<<>>}, truthy : {TRUE}]
    \cup [shape : {"other"}, url : {<<>>}, urls : {<<>>}, truthy : BOOLEAN]
    \cup [shape : {"raised"}, url : {<<>>}, urls : {<<>>}, truthy : {FALSE}]

\* bool(resolved)
IsTruthy(res) ==
    CASE res.shape = "none" -> FALSE
      [] res.shape = "str" -> res.url # <<>>
      [] res.shape = "list" -> res.urls # <<>>
      [] OTHER -> res.truthy

\* What the host's video playlist holds when the resolver starts.
OldEntry == [url |-> <<"0">>, label |-> NoLabel]

HostPlaylists == {<<>>, <<OldEntry>>}

\* Resolver.__create_playlist, the loop: the title of a pair replaces the
\* title of the items after it as well.
RECURSIVE PlaylistEntries(_, _, _)
PlaylistEntries(urls, title, count) ==
    IF urls = <<>> THEN <<>>
    ELSE LET el == Head(urls)
             now == IF el.pair THEN el.title ELSE title
         IN  <<[url |-> el.url, label |-> [title |-> now, part |-> count]]>>
             \o PlaylistEntries(Tail(urls), now, count + 1)

\* Resolver.__create_playlist: playlist[0] of an empty playlist is an error
\* of the host.
CreatePlaylist(urls, title, pl) ==
    LET filled == pl \o PlaylistEntries(urls, title, 1)
    IN  IF filled = <<>>
        THEN [exc |-> "HostError", playlist |-> filled, item |-> NoItem]
        ELSE [exc |-> "none", playlist |-> filled,
              item |-> [path |-> filled[1].url, label |-> filled[1].label]]

\* Resolver.__send_to_kodi
SendToKodi(res, title, pl) ==
    CASE res.shape = "str" ->
            [exc |-> "none", msg |-> "", playlist |-> pl, submitted |-> TRUE,
             resolved |-> [path |-> res.url, label |-> NoLabel]]
      [] res.shape = "list" ->
            LET made == CreatePlaylist(res.urls, title, pl)
            IN  [exc |-> made.exc, msg |-> "", playlist |-> made.playlist,
                 submitted |-> made.exc = "none", resolved |-> made.item]
      [] res.shape = "listitem" ->
            [exc |-> "none", msg |-> "", playlist |-> pl, submitted |-> TRUE,
             resolved |-> [path |-> res.url, label |-> NoLabel]]
      [] OTHER ->
            [exc |-> "ValueError",
             msg |-> IF IsTruthy(res) THEN "resolver returned invalid url"
                     ELSE "resolver failed to return url",
             playlist |-> pl, submitted |-> FALSE, resolved |-> NoItem]

\* Resolver.execute_route: a handler that raised sends nothing
ResolverExecuteRoute(res, title, pl) ==
    IF res.shape = "raised"
    THEN [exc |-> FailureClass("body"), msg |-> "", playlist |-> pl, submitted |-> FALSE,
          resolved |-> NoItem]
    ELSE SendToKodi(res, title, pl)

\* The marker create_loopback puts before the title, and its separator.
LoopMarker == <<"_", "l", "o", "o", "p", "b", "a", "c", "k", "_">>

LoopSeparator == <<" ", "-", " ">>

\* s.startswith(prefix) for a text prefix
StartsWithText(t, prefix) ==
    Len(t) >= Len(prefix) /\ SubSeq(t, 1, Len(prefix)) = prefix

\* Where sep first occurs in t, or 0.
FindText(t, sep) ==
    LET hits == {i \in 1..(Len(t) - Len(sep) + 1) : SubSeq(t, i, i + Len(sep) - 1) = sep}
    IN  IF hits = {} THEN 0 ELSE CHOOSE i \in hits : \A j \in hits : i <= j

TITLE == <<"t", "i", "t", "l", "e">>

\* The names build_path takes as parameters of its own.
CALLBACK == <<"c", "a", "l", "l", "b", "a", "c", "k">>
ARGS == <<"a", "r", "g", "s">>
QUERY == <<"q", "u", "e", "r", "y">>

\* build_path(**kwargs) for keyword arguments that name neither callback nor
\* args: a keyword named query is bound to the parameter query, the rest is
\* extra_query; the callback is the current route.
BuildPathKeywords(d, h, kwargs) ==
    LET found == Lookup(d.routes, d.selector)
        extra == Restrict(kwargs, DOMAIN kwargs \ {CALLBACK, ARGS, QUERY})
    IN  IF found.exc # "none"
        THEN [exc |-> found.exc, url |-> <<>>]
        ELSE [exc |-> "none",
              url |-> BuildPath(d, h, found.route, <<>>, EmptyMap, extra)]

\* Resolver.create_loopback taking every invocation for the first of its chain
CreateLoopbackAlwaysFirst(d, h, title, url, next, pl) ==
    LET next_title == LoopMarker \o LoopSeparator \o title
        kwargs == [k \in DOMAIN next \cup {TITLE} |->
                     IF k = TITLE THEN TextVal(next_title) ELSE next[k]]
        found == Lookup(d.routes, d.selector)
        loop_url == BuildPath(d, h, found.route, <<>>, EmptyMap,
                              Restrict(kwargs, DOMAIN kwargs \ {CALLBACK, ARGS, QUERY}))
    IN  [exc |-> "none",
         playlist |-> <<[url |-> url, label |-> [title |-> title, part |-> 0]],
                        [url |-> loop_url, label |-> [title |-> next_title, part |-> 0]]>>,
         item |-> [path |-> url, label |-> [title |-> title, part |-> 0]]]

\* Resolver.create_loopback
CreateLoopback(d, h, title, url, next, pl) ==
    LET reentry == StartsWithText(title, LoopMarker)
        cut == FindText(title, LoopSeparator)
        label == IF reentry THEN SubSeq(title, cut + Len(LoopSeparator), Len(title))
                 ELSE title
        next_title == IF reentry THEN title ELSE LoopMarker \o LoopSeparator \o title
        next_params == Update(next, [k \in {TITLE} |-> TextVal(next_title)])
        main == [path |-> url, label |-> [title |-> label, part |-> 0]]
        pl1 == IF reentry THEN pl
               ELSE <<[url |-> url, label |-> [title |-> label, part |-> 0]]>>
        built == BuildPathKeywords(d, h, next_params)
    IN  IF reentry /\ cut = 0
        THEN [exc |-> "IndexError", playlist |-> pl, item |-> NoItem]
        ELSE IF built.exc # "none"
        THEN [exc |-> built.exc, playlist |-> pl1, item |-> NoItem]
        ELSE [exc |-> "none",
              playlist |-> Append(pl1, [url |-> built.url,
                                        label |-> [title |-> next_title, part |-> 0]]),
              item |-> main]

\* The resolver handler that is being served, and the queries it was invoked with.
ServedHandler == CHOOSE h \in Handlers : h.id = "V"

ServedQueries == {EmptyQuery, BlobQuery([k \in {X} |-> UnicodeVal("1")])}

\* The dispatcher as the handler body finds it: its route registered, the
\* invocation parsed, the two debug records of dispatch logged.
ServedDispatcher(h, query) ==
    LET reg == RegisterOutcome(EmptyMap, 0, h)
        fresh == [routes |-> reg.routes, selector |-> ROOT, handle |-> -1,
                  params |-> EmptyMap, callback_params |-> EmptyMap, metacalls |-> <<>>,
                  auto_sort |-> {}, debug_msgs |-> <<>>]
        parsed == ParseSysargs(fresh, [scheme |-> "plugin", path |-> Slash(reg.route.path),
                                       handle |-> 1, query |-> query])
    IN  LogDebug(LogDebug(parsed.d, "dispatching"), "callback_params")

Serving(h, query) ==
    LET reg == RegisterOutcome(EmptyMap, 0, h)
        d == ServedDispatcher(h, query)
    IN  /\ registered_routes = d.routes
        /\ handler_route = [i \in HandlerIds |-> IF i = h.id THEN reg.route ELSE NoRoute]
        /\ route_count = reg.count
        /\ selector = d.selector
        /\ handle = d.handle
        /\ params = d.params
        /\ callback_params = d.callback_params
        /\ metacalls = d.metacalls
        /\ auto_sort = d.auto_sort
        /\ debug_msgs = d.debug_msgs
        /\ last = NoObs
        /\ op_count = 0

\* The next-item parameters handlers give create_loopback.
LoopNexts ==
    { EmptyMap,
      [k \in {Y} |-> IntVal("2")],
      [k \in {Y, TITLE} |-> IntVal("2")],
      [k \in {Y, QUERY} |-> IntVal("2")] }

\* The controller's title: that of a list item, or one a loop-back carried.
Titles == {<<"T">>, LoopMarker \o LoopSeparator \o <<"T">>}

ResolverInit ==
    /\ \E query \in ServedQueries : Serving(ServedHandler, query)
    /\ PathIdle
    /\ QueryIdle
    /\ ArgvIdle
    /\ TripIdle
    /\ FolderIdle
    /\ resolver_in \in
          [title : Titles, result : ResolverResults, media : {<<>>}, next : {EmptyMap},
           loop : {NoLoop}]
          \cup [title : Titles, result : {NoResult}, media : {<<"1">>}, next : LoopNexts,
                loop : {NoLoop}]
    /\ resolver_out = NotResolved
    /\ playlist \in HostPlaylists
    /\ LibIdle

\* The handler body calls plugin.create_loopback(media, **next) and returns
\* the list item it gets.
UseLoopback ==
    /\ resolver_out = NotResolved
    /\ resolver_in.media # <<>>
    /\ ~resolver_in.loop.used
    /\ LET out == CreateLoopback(DispatcherState, ServedHandler, resolver_in.title,
                                 resolver_in.media, resolver_in.next, playlist)
       IN  /\ playlist' = out.playlist
           /\ resolver_in' =
                 [resolver_in EXCEPT
                     !.loop = [used |-> TRUE, exc |-> out.exc, item |-> out.item],
                     !.result = IF out.exc = "none"
                                THEN [shape |-> "listitem", url |-> out.item.path,
                                      urls |-> <<>>, truthy |-> TRUE]
                                ELSE NoResult]
    /\ UNCHANGED <<dispatcher_vars, lib_vars, path_vars, query_vars, argv_vars, trip_vars,
                   folder_vars, resolver_out>>

\* Resolver.execute_route on the handler's result
Resolve ==
    /\ resolver_out = NotResolved
    /\ resolver_in.media # <<>> => (resolver_in.loop.used /\ resolver_in.loop.exc = "none")
    /\ LET out == ResolverExecuteRoute(resolver_in.result, resolver_in.title, playlist)
       IN  /\ resolver_out' = [exc |-> out.exc, msg |-> out.msg, resolved |-> out.resolved,
                               submitted |-> out.submitted]
           /\ playlist' = out.playlist
    /\ UNCHANGED <<dispatcher_vars, lib_vars, path_vars, query_vars, argv_vars, trip_vars,
                   folder_vars, resolver_in>>

\* The player reaches the loop-back entry, the last of the playlist, and the
\* host invokes the plugin with its URL; the controller's title is the title
\* parameter of that invocation, and the handler is about to resolve the
\* next medium.
Reinvoke ==
    /\ op_count < MaxOps
    /\ resolver_out.submitted
    /\ resolver_in.loop.used
    /\ resolver_in.loop.exc = "none"
    /\ LET parts == UrlSplit(playlist[Len(playlist)].url)
           read == ReadQueryText(parts.query)
           d == ServedDispatcher(ServedHandler, read.query)
       IN  /\ read.exc = "none"
           /\ TITLE \in DOMAIN d.params
           /\ Install(d)
           /\ resolver_in' \in [title : {d.params[TITLE].val}, result : {NoResult},
                                 media : {<<"2">>}, next : LoopNexts, loop : {NoLoop}]
    /\ op_count' = op_count + 1
    /\ resolver_out' = NotResolved
    /\ UNCHANGED <<handler_route, route_count, last, playlist, lib_vars, path_vars,
                   query_vars, argv_vars, trip_vars, folder_vars>>

ResolverNext == UseLoopback \/ Resolve \/ Reinvoke

ResolverSpec == ResolverInit /\ [][ResolverNext]_vars

----------------------------------------------------------------------------
(* The two controllers side by side: a folder listing or a resolution *)

ControllerInit == FolderInit \/ ResolverInit

ControllerNext == FolderNext \/ ResolverNext

ControllerSpec == ControllerInit /\ [][ControllerNext]_vars

----------------------------------------------------------------------------
(* Route.args_to_kwargs on its own: every drawn signature and argument list *)

MaxArgs == 3        \* most positional arguments a drawn call passes

\* What inspect reports for the callback: the controller parameter, then the
\* declared names.
Signatures == {<<"self">>, <<"self", X>>, <<"self", X, Y>>, <<"plugin", Y, X>>}

RebindTargets ==
    { EmptyMap, [k \in {X} |-> UnicodeVal("1")], [k \in {U} |-> UnicodeVal("1")],
      [k \in {X, U} |-> UnicodeVal("1")] }

RebindInit ==
    /\ DispatcherInit
    /\ PathIdle
    /\ QueryIdle
    /\ ArgvIdle
    /\ TripIdle
    /\ FolderIdle
    /\ ResolverIdle
    /\ LogIdle
    /\ UuidIdle
    /\ rebind_in \in [argnames : Signatures,
                       args : SeqsUpTo({UnicodeVal("7"), IntVal("2")}, MaxArgs),
                       target : RebindTargets]
    /\ rebind_out = [done |-> FALSE, target |-> EmptyMap]

\* route.args_to_kwargs(args, target)
Rebind ==
    /\ ~rebind_out.done
    /\ rebind_out' = [done |-> TRUE,
                      target |-> ArgsToKwargs(rebind_in, rebind_in.args, rebind_in.target)]
    /\ UNCHANGED <<dispatcher_vars, path_vars, query_vars, argv_vars, trip_vars,
                   folder_vars, resolver_vars, rebind_in, log_in, kodi_log, uuid_in,
                   uuid_out>>

RebindNext == Rebind

RebindSpec == RebindInit /\ [][RebindNext]_vars

----------------------------------------------------------------------------
(* KodiLogHandler on its own: records of every level, both handlers *)

\* The handler of support.py and the handler of utils.py.
LogHandlers == {"support", "utils"}

\* record.levelno: debug, info, a level of the plugin's own, warning, error,
\* critical.
LogLevels == {10, 20, 25, 30, 40, 50}

LogMessages == {"a", "b"}

\* LoggingMap of support.py; log_level_map of utils.py, a plain dict
KodiLevel(handler, level) ==
    CASE level = 10 -> IF handler = "support" THEN "LOGDEBUG" ELSE "LOGWARNING"
      [] level = 20 -> "LOGNOTICE"
      [] level = 30 -> "LOGWARNING"
      [] level = 40 -> "LOGERROR"
      [] level = 50 -> "LOGFATAL"
      [] OTHER -> IF handler = "support" THEN "LOGNOTICE" ELSE "KeyError"

\* One call of xbmc.log.
KodiLine(msg, level) == [msg |-> msg, level |-> level]

DebugMarker == KodiLine("###### debug ######", "LOGWARNING")

\* KodiLogHandler.emit replaying the newest message first
EmitReplayReversed(handler, buffer, log, level, msg) ==
    LET log1 == Append(log, KodiLine(msg, KodiLevel(handler, level)))
    IN  IF KodiLevel(handler, level) = "KeyError"
        THEN [exc |-> "KeyError", buffer |-> buffer, log |-> log]
        ELSE IF level = 10
        THEN [exc |-> "none", buffer |-> Append(buffer, msg), log |-> log1]
        ELSE IF level = 50 /\ buffer # <<>>
        THEN [exc |-> "none", buffer |-> buffer,
              log |-> log1 \o <<DebugMarker>>
                      \o [i \in 1..Len(buffer) |->
                             KodiLine(buffer[Len(buffer) + 1 - i], "LOGWARNING")]
                      \o <<DebugMarker>>]
        ELSE [exc |-> "none", buffer |-> buffer, log |-> log1]

\* KodiLogHandler.emit
Emit(handler, buffer, log, level, msg) ==
    LET log1 == Append(log, KodiLine(msg, KodiLevel(handler, level)))
    IN  IF KodiLevel(handler, level) = "KeyError"
        THEN [exc |-> "KeyError", buffer |-> buffer, log |-> log]
        ELSE IF level = 10
        THEN [exc |-> "none", buffer |-> Append(buffer, msg), log |-> log1]
        ELSE IF level = 50 /\ buffer # <<>>
        THEN [exc |-> "none", buffer |-> buffer,
              log |-> log1 \o <<DebugMarker>>
                      \o [i \in 1..Len(buffer) |-> KodiLine(buffer[i], "LOGWARNING")]
                      \o <<DebugMarker>>]
        ELSE [exc |-> "none", buffer |-> buffer, log |-> log1]

LogInit ==
    /\ DispatcherInit
    /\ PathIdle
    /\ QueryIdle
    /\ ArgvIdle
    /\ TripIdle
    /\ FolderIdle
    /\ ResolverIdle
    /\ RebindIdle
    /\ UuidIdle
    /\ log_in \in [handler : LogHandlers, level : {0}, msg : {""}]
    /\ kodi_log = <<>>

\* A logger of the package emits a record.
EmitRecord(level, msg) ==
    /\ op_count < MaxOps
    /\ op_count' = op_count + 1
    /\ log_in' = [log_in EXCEPT !.level = level, !.msg = msg]
    /\ LET out == Emit(log_in.handler, debug_msgs, kodi_log, level, msg)
       IN  /\ debug_msgs' = out.buffer
           /\ kodi_log' = out.log
    /\ UNCHANGED <<registered_routes, handler_route, route_count, selector, handle,
                   params, callback_params, metacalls, auto_sort, last, path_vars,
                   query_vars, argv_vars, trip_vars, folder_vars, resolver_vars,
                   rebind_in, rebind_out, uuid_in, uuid_out>>

LogNext == \E level \in LogLevels, msg \in LogMessages : EmitRecord(level, msg)

LogSpec == LogInit /\ [][LogNext]_vars

----------------------------------------------------------------------------
(* youtube.APIControl.validate_uuid on its own: every kind of content id *)

\* A playlist id, a favourites id, an uploads id, a channel id, a channel name.
PL1 == <<"P", "L", "1">>
FL1 == <<"F", "L", "1">>
UU1 == <<"U", "U", "1">>
UC1 == <<"U", "C", "1">>
BOB == <<"b", "o", "b">>

ContentIds == {PL1, FL1, UU1, UC1, BOB}

\* contentid[:2]
ContentCode(contentid) == SubSeq(contentid, 1, Min(2, Len(contentid)))

\* The channel cache: ref maps uploads ids and channel names to channel ids,
\* channels maps a channel id to the uploads id of its data.
ChannelCaches ==
    { [ref |-> Restrict([k \in {UU1, BOB} |-> UC1], r),
       channels |-> Restrict([k \in {UC1} |-> UU1], c)] :
         r \in SUBSET {UU1, BOB}, c \in SUBSET {UC1} }

\* self.api.channels(channel_id, for_username): the items of the feed, one
\* when the server knows the channel.
ChannelFeed(known) == IF known THEN <<[id |-> UC1, uploads |-> UU1]>> ELSE <<>>

\* APIControl.update_channel_cache
UpdateChannelCache(cache, known, for_username) ==
    LET items == ChannelFeed(known)
        channels == IF items = <<>> THEN cache.channels
                    ELSE Update(cache.channels, [k \in {items[1].id} |-> items[1].uploads])
        ref == IF items = <<>> THEN cache.ref
               ELSE Update(cache.ref, [k \in {items[1].uploads} |-> items[1].id])
    IN  IF for_username # <<>> /\ items = <<>>
        THEN [exc |-> "IndexError", cache |-> cache]
        ELSE IF for_username # <<>>
        THEN [exc |-> "none",
              cache |-> [ref |-> Update(ref, [k \in {for_username} |-> items[1].id]),
                         channels |-> channels]]
        ELSE [exc |-> "none", cache |-> [ref |-> ref, channels |-> channels]]

Returned(value, cache) == [exc |-> "none", ret |-> value, cache |-> cache]

Raised(class, cache) == [exc |-> class, ret |-> <<>>, cache |-> cache]

\* validate_uuid, the uploads branch handing the uploads id back in both cases
ValidateUploadsUnmapped(cache, contentid, require_playlist) == Returned(contentid, cache)

\* validate_uuid, the branch of an uploads id
ValidateUploads(cache, contentid, require_playlist) ==
    IF require_playlist THEN Returned(contentid, cache)
    ELSE IF contentid \in DOMAIN cache.ref THEN Returned(cache.ref[contentid], cache)
    ELSE Raised("ValueError", cache)

\* validate_uuid, the branch of a channel id
ValidateChannel(cache, known, contentid, require_playlist) ==
    IF ~require_playlist THEN Returned(contentid, cache)
    ELSE IF contentid \in DOMAIN cache.channels
    THEN Returned(cache.channels[contentid], cache)
    ELSE LET upd == UpdateChannelCache(cache, known, <<>>)
         IN  IF contentid \in DOMAIN upd.cache.channels
             THEN Returned(upd.cache.channels[contentid], upd.cache)
             ELSE Raised("KeyError", upd.cache)

\* validate_uuid, the branch of a channel name
ValidateName(cache, known, contentid, require_playlist) ==
    LET upd == IF contentid \in DOMAIN cache.ref
               THEN IF cache.ref[contentid] \in DOMAIN cache.channels
                    THEN [exc |-> "none", cache |-> cache]
                    ELSE UpdateChannelCache(cache, known, <<>>)
               ELSE UpdateChannelCache(cache, known, contentid)
    IN  IF upd.exc # "none" THEN Raised(upd.exc, upd.cache)
        ELSE LET channelid == upd.cache.ref[contentid]
             IN  IF ~require_playlist THEN Returned(channelid, upd.cache)
                 ELSE IF channelid \in DOMAIN upd.cache.channels
                 THEN Returned(upd.cache.channels[channelid], upd.cache)
                 ELSE Raised("KeyError", upd.cache)

\* APIControl.validate_uuid
ValidateUuid(cache, known, contentid, require_playlist) ==
    LET content_code == ContentCode(contentid)
    IN  CASE content_code \in {<<"P", "L">>, <<"F", "L">>} ->
                IF require_playlist THEN Returned(contentid, cache)
                ELSE Raised("ValueError", cache)
          [] content_code = <<"U", "U">> -> ValidateUploads(cache, contentid, require_playlist)
          [] content_code = <<"U", "C">> ->
                ValidateChannel(cache, known, contentid, require_playlist)
          [] OTHER -> ValidateName(cache, known, contentid, require_playlist)

UuidInit ==
    /\ DispatcherInit
    /\ PathIdle
    /\ QueryIdle
    /\ ArgvIdle
    /\ TripIdle
    /\ FolderIdle
    /\ ResolverIdle
    /\ RebindIdle
    /\ LogIdle
    /\ uuid_in \in [contentid : ContentIds, require_playlist : BOOLEAN,
                     cache : ChannelCaches, known : BOOLEAN]
    /\ uuid_out = [exc |-> "unvalidated", ret |-> <<>>, cache |-> NoCache]

\* self.validate_uuid(contentid, require_playlist)
Validate ==
    /\ uuid_out.exc = "unvalidated"
    /\ uuid_out' = ValidateUuid(uuid_in.cache, uuid_in.known, uuid_in.contentid,
                                uuid_in.require_playlist)
    /\ UNCHANGED <<dispatcher_vars, path_vars, query_vars, argv_vars, trip_vars,
                   folder_vars, resolver_vars, rebind_in, rebind_out, log_in, kodi_log,
                   uuid_in>>

UuidNext == Validate

UuidSpec == UuidInit /\ [][UuidNext]_vars

----------------------------------------------------------------------------
(* Properties *)

HandlerOf(id) == CHOOSE h \in Handlers : h.id = id

\* The mapping a raw query decodes to, read off the query itself.
DecodedKeys(q) ==
    IF q.enc = "blob" THEN DOMAIN q.blob
    ELSE {q.pairs[i][1] : i \in {j \in 1..Len(q.pairs) : q.pairs[j][2] # ""}}

DecodedValue(q, k) ==
    IF q.enc = "blob" THEN q.blob[k]
    ELSE UnicodeVal(q.pairs[CHOOSE i \in 1..Len(q.pairs) : q.pairs[i][1] = k
                                                          /\ q.pairs[i][2] # ""][2])

ControlShaped(k) == Len(k) >= 1 /\ k[1] = "_" /\ k[Len(k)] = "_"

\* C1: dispatch() never lets an exception escape to its caller, whichever
\* step raised it.
C1_DispatchNeverRaises == last.op = "dispatch" => last.exc = "none"

\* C2: a dispatch that fails produces exactly one notification and exactly
\* one critical log record; a dispatch that succeeds produces neither.
C2_OneReportPerFailure ==
    last.op = "dispatch" =>
        IF last.exc # "none" \/ last.caught # "none"
        THEN last.notes = 1 /\ last.crits = 1
        ELSE last.notes = 0 /\ last.crits = 0

\* C3: registering a handler whose path is already registered raises the
\* duplicate-route error (ValueError) and leaves that path mapped to the Route
\* of the first registration.
C3_DuplicateRejected ==
    [][\A h \in Handlers :
          (/\ last'.op = "register"
           /\ last'.handler = h.id
           /\ RoutePath(h.module, h.name) \in DOMAIN registered_routes)
          => (/\ last'.exc = "ValueError"
              /\ RoutePath(h.module, h.name) \in DOMAIN registered_routes'
              /\ registered_routes'[RoutePath(h.module, h.name)]
                     = registered_routes[RoutePath(h.module, h.name)])]_vars

\* C3 witness: class v is rejected because class V already holds its path.
C3_Witness ==
    /\ last.op = "register"
    /\ last.handler = "v"
    /\ last.exc = "ValueError"
    /\ handler_route["V"] # NoRoute

\* C4: no operation removes or replaces a registry entry.
C4_RegistryAppendOnly ==
    [][\A p \in DOMAIN registered_routes :
          p \in DOMAIN registered_routes' /\ registered_routes'[p] = registered_routes[p]]_vars

\* C4 witness: a test call and a reset have run with both routes registered.
C4_Witness ==
    /\ Cardinality(DOMAIN registered_routes) = 2
    /\ last.op \in {"test", "reset", "dispatch"}

\* C5 as claimed: only the leading underscores of the module path are stripped.
C5_LeadingUnderscoresOnly ==
    path_out # <<>> => path_out = RoutePathLeadingOnly(path_in.module, path_in.name)

\* C5 as amended: the path is "root" for a handler named root in any case;
\* otherwise it is the lower-cased "<scope>/<name>" where <scope> is the module
\* path without its leading and its trailing underscores, dots turned to "/".
C5_PathStripsBothEnds ==
    path_out # <<>> =>
        LET m == path_in.module
            n == path_in.name
        IN  IF Lower(n) = ROOT
            THEN path_out = ROOT
            ELSE \E i \in 0..Len(m), j \in 0..Len(m) :
                    /\ i + j <= Len(m)
                    /\ \A k \in 1..i : m[k] = "_"
                    /\ \A k \in (Len(m) - j + 1)..Len(m) : m[k] = "_"
                    /\ LET core == SubSeq(m, i + 1, Len(m) - j)
                       IN  /\ core = <<>> \/ (core[1] # "_" /\ core[Len(core)] # "_")
                           /\ Len(path_out) = Len(core) + 1 + Len(n)
                           /\ \A k \in 1..Len(core) :
                                 path_out[k] = IF core[k] = "." THEN "/"
                                               ELSE LowerChar(core[k])
                           /\ path_out[Len(core) + 1] = "/"
                           /\ \A k \in 1..Len(n) :
                                 path_out[Len(core) + 1 + k] = LowerChar(n[k])

\* C5 witness: a module with a trailing underscore and a mixed-case name.
C5_Witness ==
    /\ path_in.module = <<"_", "a", "_">>
    /\ path_in.name = <<"F">>
    /\ path_out = <<"a", "/", "f">>

\* C6 as claimed: a class without 'run' is rejected with the missing-entry-point
\* error (NameError) and its path has no registry entry afterwards.
C6_MissingRunAlwaysNameError ==
    \A h \in Handlers :
        (last.op = "register" /\ last.handler = h.id /\ h.isclass /\ ~h.hasrun)
        => (/\ last.exc = "NameError"
            /\ RoutePath(h.module, h.name) \notin DOMAIN registered_routes)

\* C6 as amended: registering a class without 'run' always fails and leaves the
\* registry as it was: with the missing-entry-point error (NameError) when its
\* path is not yet registered, with the duplicate-route error (ValueError)
\* when it is.
C6_MissingRunRejected ==
    [][\A h \in Handlers :
          (last'.op = "register" /\ last'.handler = h.id /\ h.isclass /\ ~h.hasrun)
          => (/\ registered_routes' = registered_routes
              /\ handler_route' = handler_route
              /\ last'.exc = IF RoutePath(h.module, h.name) \in DOMAIN registered_routes
                             THEN "ValueError"
                             ELSE "NameError")]_vars

\* C6 witness: class W, whose path is free, is rejected for its missing 'run'.
C6_Witness ==
    /\ last.op = "register"
    /\ last.handler = "W"
    /\ last.exc = "NameError"
    /\ RoutePath(HandlerOf("W").module, HandlerOf("W").name) \notin DOMAIN registered_routes

\* C7: a successful register returns the handler it was given, annotated with
\* its Route, and every registered Route is the registry entry at its own path.
C7_RegisterAnnotates ==
    /\ (last.op = "register" /\ last.exc = "none")
       => (/\ last.ret = last.handler
           /\ handler_route[last.handler] # NoRoute
           /\ handler_route[last.handler].org_callback = last.handler)
    /\ \A p \in DOMAIN registered_routes : registered_routes[p].path = p
    /\ \A id \in HandlerIds :
          handler_route[id] # NoRoute
          => (/\ handler_route[id].path \in DOMAIN registered_routes
              /\ registered_routes[handler_route[id].path] = handler_route[id])

\* C7 witness: class V was registered and returned under a path that is not
\* its bare name.
C7_Witness ==
    /\ last.op = "register"
    /\ last.handler = "V"
    /\ last.exc = "none"
    /\ handler_route["V"].path # Lower(HandlerOf("V").name)

\* C8: a dispatch whose selector is not registered ends with the unknown-route
\* error (KeyError), without instantiating a controller or calling a handler.
C8_UnknownRoute ==
    (last.op = "dispatch" /\ last.exc = "none" /\ selector \notin DOMAIN registered_routes)
    => (/\ last.caught = "KeyError"
        /\ ~last.called
        /\ \A i \in 1..Len(last.trace) : last.trace[i] \notin {"instantiate", "handler"})

\* C8 witness: an unknown selector is dispatched while the root route exists.
C8_Witness ==
    /\ last.op = "dispatch"
    /\ last.caught = "KeyError"
    /\ selector = <<"a", "/", "b", "/", "w">>
    /\ ROOT \in DOMAIN registered_routes

\* C9: the parameter set of a dispatch, and the keyword arguments its handler
\* receives, hold exactly what the dispatch's own query decodes to.
C9_FreshParameters ==
    (last.op = "dispatch" /\ last.exc = "none")
    => (/\ DOMAIN params = (IF last.query.enc = "empty" THEN {}
                            ELSE DecodedKeys(last.query))
        /\ \A k \in DOMAIN params : params[k] = DecodedValue(last.query, k)
        /\ last.called =>
              (/\ DOMAIN last.kwargs = {k \in DOMAIN params : ~ControlShaped(k)}
               /\ \A k \in DOMAIN last.kwargs : last.kwargs[k] = params[k]))

\* C10: the control and the callback partition of a decoded parameter set are
\* disjoint, cover exactly the decoded keys, and a key is control iff it
\* starts and ends with an underscore (Params and a new Dispatcher alike).
C10_PartitionTotal ==
    /\ query_out.exc = "none"
       => (/\ DOMAIN query_out.callback_params \cap DOMAIN query_out.support_params = {}
           /\ DOMAIN query_out.callback_params \cup DOMAIN query_out.support_params
                  = (IF query_in.enc = "empty" THEN {} ELSE DecodedKeys(query_in))
           /\ \A k \in DOMAIN query_out.support_params :
                 ControlShaped(k) /\ query_out.support_params[k] = DecodedValue(query_in, k)
           /\ \A k \in DOMAIN query_out.callback_params :
                 ~ControlShaped(k) /\ query_out.callback_params[k] = DecodedValue(query_in, k))
    /\ (last.op = "parse" /\ last.exc = "none")
       => LET control == {k \in DOMAIN params : k \notin DOMAIN callback_params}
          IN  /\ DOMAIN callback_params \subseteq DOMAIN params
              /\ DOMAIN callback_params \cup control
                     = (IF query_in.enc = "empty" THEN {} ELSE DecodedKeys(query_in))
              /\ \A k \in control : ControlShaped(k)
              /\ \A k \in DOMAIN callback_params :
                    ~ControlShaped(k) /\ callback_params[k] = DecodedValue(query_in, k)

\* C10 witness: a query with a control key and a callback key that only starts
\* with an underscore has been decoded both ways.
C10_Witness ==
    /\ query_out.exc = "none"
    /\ last.op = "parse"
    /\ DOMAIN query_out.support_params = {<<"_", "_">>}
    /\ DOMAIN query_out.callback_params = {<<"_", "a">>}
    /\ DOMAIN callback_params = {<<"_", "a">>}
    /\ DOMAIN params = {<<"_", "_">>, <<"_", "a">>}

\* C11: the handler of a dispatch receives no key that starts and ends with an
\* underscore, and receives every other key its query decodes to.
C11_ControlKeysWithheld ==
    (last.op = "dispatch" /\ last.called)
    => (/\ \A k \in DOMAIN last.kwargs : ~ControlShaped(k)
        /\ last.query.enc # "empty"
           => \A k \in DecodedKeys(last.query) :
                 ~ControlShaped(k)
                 => (k \in DOMAIN last.kwargs
                     /\ last.kwargs[k] = DecodedValue(last.query, k)))

\* C11 witness: a handler ran on a query with a control key and a callback key.
C11_Witness ==
    /\ last.op = "dispatch"
    /\ last.called
    /\ DecodedKeys(last.query) = {U, X}
    /\ DOMAIN last.kwargs = {X}

InTrace(step) == \E i \in 1..Len(last.trace) : last.trace[i] = step

IsPrefix(s, t) == Len(s) <= Len(t) /\ \A i \in 1..Len(s) : s[i] = t[i]

\* C16: a drain invokes the queued callables in the order they were scheduled,
\* each entry once; scheduling only appends to the queue.
C16_DrainInScheduleOrder ==
    [][(last'.op = "dispatch" /\ last'.caught = "none" /\ last'.exc = "none")
       => (/\ IsPrefix(metacalls, metacalls')
           /\ last'.ran = metacalls')]_vars

\* C16 witness: a drain ran two different callables, in their queue order.
C16_Witness ==
    /\ last.op = "dispatch"
    /\ last.ran = <<"fail", "sched">>
    /\ metacalls = <<"fail", "sched">>

\* C17: a callable that raises during a drain stops nothing: every entry is
\* still invoked, each failure is logged, and the drain does not raise.
C17_DrainIsolatesFailures ==
    (last.op \in {"dispatch", "test"} /\ InTrace("drain"))
    => (/\ last.errors = Cardinality({i \in 1..Len(last.ran) : last.ran[i] = "fail"})
        /\ last.op = "dispatch"
           => (/\ Len(last.ran) = Len(metacalls)
               /\ last.exc = "none"
               /\ last.caught = "none"
               /\ last.notes = 0))

\* C17 witness: the first of two queued callables raised and the second ran.
C17_Witness ==
    /\ last.op = "dispatch"
    /\ Len(last.ran) = 2
    /\ last.ran[1] = "fail"
    /\ last.errors >= 1

\* C18: after a drain the deferred queue is empty.
C18_QueueEmptyAfterDrain ==
    (last.op = "dispatch" /\ InTrace("drain")) => metacalls = <<>>

\* C19: after a test call that returned or whose handler raised, the selector
\* is "root" and the parameter set, the sort-method accumulator, the debug
\* buffer and the deferred queue are empty.
C19_TestCallResets ==
    (last.op = "test" /\ last.called)
    => (/\ selector = ROOT
        /\ DOMAIN params = {}
        /\ auto_sort = {}
        /\ Len(debug_msgs) = 0
        /\ Len(metacalls) = 0)

\* C19 witness: a test call with keyword arguments whose handler raised after
\* scheduling a callable, with the callables executed.
C19_Witness ==
    /\ last.op = "test"
    /\ last.exc = "RuntimeError"
    /\ DOMAIN last.kwargs = {Y}
    /\ last.ran # <<>>

\* Some key occurs in more than one pair of a form-encoded query.
RepeatedKey(q) ==
    /\ q.enc = "form"
    /\ \E i, j \in 1..Len(q.pairs) : i < j /\ q.pairs[i][1] = q.pairs[j][1]

\* Some key occurs in more than one pair with a non-blank value.
RepeatedFilledKey(q) ==
    /\ q.enc = "form"
    /\ \E i, j \in 1..Len(q.pairs) :
          /\ i < j
          /\ q.pairs[i][1] = q.pairs[j][1]
          /\ q.pairs[i][2] # ""
          /\ q.pairs[j][2] # ""

\* C12 as stated: decoding a form-encoded query in which some key occurs more
\* than once fails with the duplicate-parameter error and leaves the
\* dispatcher's parameter set as it was.
C12_AnyRepeatedKeyRejected ==
    [][/\ (last'.op = "parse" /\ RepeatedKey(query_in))
          => (/\ last'.exc = "ValueError"
              /\ params' = params
              /\ callback_params' = callback_params)
       /\ (query_out' # query_out /\ RepeatedKey(query_in))
          => query_out'.exc = "ValueError"]_vars

\* C12: decoding a form-encoded query in which some key occurs more than once
\* with a non-blank value fails with the duplicate-parameter error, keeping
\* neither value, and leaves the dispatcher's parameter set as it was.
C12_RepeatedFilledKeyRejected ==
    [][/\ (last'.op = "parse" /\ RepeatedFilledKey(query_in))
          => (/\ last'.exc = "ValueError"
              /\ params' = params
              /\ callback_params' = callback_params)
       /\ (query_out' # query_out /\ RepeatedFilledKey(query_in))
          => (/\ query_out'.exc = "ValueError"
              /\ DOMAIN query_out'.dict = {})]_vars

\* C12 witness: a query with a repeated key was refused by a dispatcher that
\* still holds the parameters of the earlier invocation.
C12_Witness ==
    /\ last.op = "parse"
    /\ RepeatedFilledKey(last.query)
    /\ last.exc = "ValueError"
    /\ DOMAIN params = DOMAIN EarlierQuery.blob

\* C14 as stated: parsing an argument vector whose first argument is not a
\* plugin:// address fails with the invalid-invocation error before any lookup
\* or handler call, leaving selector, handle and parameter set unchanged.
C14_NonPluginAlwaysRejected ==
    [][/\ (op_count' # op_count /\ last'.op = "dispatch"
           /\ last'.query = argv_in.query /\ argv_in.scheme # "plugin")
          => (/\ last'.exc = "RuntimeError"
              /\ last'.trace = <<"parse">>
              /\ ~last'.called
              /\ selector' = selector
              /\ handle' = handle
              /\ params' = params)
       /\ (argv_out' # argv_out /\ argv_in.scheme # "plugin")
          => argv_out'.exc = "RuntimeError"]_vars

\* C14: Dispatcher.parse_sysargs refuses an argument vector whose first
\* argument is not a plugin:// address with the invalid-invocation error before
\* any lookup or handler call, leaving selector, handle and parameter set
\* unchanged; utils.parse_sysargs refuses it unless it has exactly two elements.
C14_NonPluginRejected ==
    [][/\ (op_count' # op_count /\ last'.op = "dispatch"
           /\ last'.query = argv_in.query /\ argv_in.scheme # "plugin")
          => (/\ last'.exc = "RuntimeError"
              /\ last'.trace = <<"parse">>
              /\ ~last'.called
              /\ selector' = selector
              /\ handle' = handle
              /\ params' = params
              /\ callback_params' = callback_params)
       /\ (argv_out' # argv_out /\ argv_in.scheme # "plugin")
          => (argv_out'.exc = "RuntimeError" <=> argv_in.argc # 2)]_vars

\* C14 witness: a dispatcher holding the earlier invocation's selector, handle
\* and parameters refused a script invocation.
C14_Witness ==
    /\ argv_in.scheme = "script"
    /\ last.op = "dispatch"
    /\ last.query = argv_in.query
    /\ last.exc = "RuntimeError"
    /\ last.trace = <<"parse">>
    /\ selector = <<"a">>
    /\ handle = EarlierInvocation.handle
    /\ DOMAIN params # {}

\* The selector the specification gives a path.
NormalSelector(path) ==
    IF path = <<>> \/ path = <<"/">> THEN ROOT
    ELSE IF path[1] = "/" THEN Tail(path)
    ELSE path

\* C15: after a successful parse the selector is "root" for an empty path and
\* for "/", otherwise the path without its one leading separator; it is never
\* empty.
C15_SelectorNormalised ==
    /\ (last.op = "dispatch" /\ last.query = argv_in.query
        /\ argv_in.scheme = "plugin" /\ last.exc = "none")
       => (selector = NormalSelector(argv_in.path) /\ selector # <<>>)
    /\ (argv_out # NotParsed /\ argv_out.exc = "none")
       => (argv_out.selector = NormalSelector(argv_in.path) /\ argv_out.selector # <<>>)

\* C15 witness: both parsers took the selector of a path with two leading
\* separators.
C15_Witness ==
    /\ argv_in.scheme = "plugin"
    /\ argv_in.path = <<"/", "/", "a">>
    /\ last.op = "dispatch"
    /\ last.query = argv_in.query
    /\ selector = <<"/", "a">>
    /\ argv_out.selector = <<"/", "a">>

\* C13: parsing the URL that build_path produces for a query mapping yields
\* callback parameters equal to the mapping restricted to the keys that do not
\* both start and end with an underscore.
C13_RoundTrip ==
    last.op = "invoke"
    => (/\ last.exc = "none"
        /\ selector = ROOT
        /\ callback_params
             = [k \in {key \in DOMAIN trip_in : ~ControlShaped(key)} |-> trip_in[k]])

\* C13 witness: a mapping with a control key and an integer-valued callback
\* key made the trip.
C13_Witness ==
    /\ last.op = "invoke"
    /\ DOMAIN trip_in = {<<"_", "_">>, <<"a">>}
    /\ trip_in[<<"a">>] = IntVal("1")
    /\ DOMAIN callback_params = {<<"a">>}
    /\ DOMAIN params = DOMAIN trip_in

\* C20: a folder handler whose result is empty, or holds only falsy
\* placeholders (a lazily produced result included), fails with the
\* empty-result error, and nothing is submitted to the host's directory API.
C20_EmptyListingRejected ==
    (/\ folder_out # NotListed
     /\ \A i \in 1..Len(folder_in.items) : folder_in.items[i] = "falsy")
    => (/\ folder_out.exc = "RuntimeError"
        /\ \A i \in 1..Len(folder_out.calls) :
              folder_out.calls[i].api # "addDirectoryItems")

\* The items of the listing that are sealed, and the folders among them.
SealedCount == Cardinality({i \in 1..Len(folder_in.items) : folder_in.items[i] # "falsy"})

FolderCount == Cardinality({i \in 1..Len(folder_in.items) : folder_in.items[i] = "folder"})

CallsOf(api) == SelectSeq(folder_out.calls, LAMBDA call : call.api = api)

\* C21: a listing of n >= 1 sealed items of which k are folders is classified
\* as a folder listing iff 2*k > n, and as a media listing otherwise.
C21_FolderMajority ==
    (folder_out # NotListed /\ folder_out.exc = "none" /\ SealedCount >= 1)
    => (/\ Len(CallsOf("setting")) = 1
        /\ CallsOf("setting")[1].flag <=> (2 * FolderCount > SealedCount)
        /\ CallsOf("setting")[1].text
             = (IF 2 * FolderCount > SealedCount THEN "folder.view" ELSE "video.view")
        /\ \A i \in 1..Len(CallsOf("Container.SetViewMode")) :
              CallsOf("Container.SetViewMode")[i].text
                = (IF 2 * FolderCount > SealedCount THEN folder_in.views.folder
                   ELSE folder_in.views.video))

\* C21 witness: two folders among three items made a folder listing.
C21_Witness ==
    /\ folder_out # NotListed
    /\ SealedCount = 3
    /\ FolderCount = 2
    /\ Len(CallsOf("Container.SetViewMode")) = 1
    /\ CallsOf("Container.SetViewMode")[1].text = "50"

\* C22: with auto-detection disabled and no method requested, exactly the
\* "unsorted" method is registered, whatever the accumulator of detected
\* methods holds.
C22_UnsortedFallback ==
    (/\ folder_out # NotListed
     /\ folder_out.exc = "none"
     /\ ~folder_in.autosort
     /\ folder_in.manual = {})
    => (/\ Len(CallsOf("addSortMethod")) = 1
        /\ CallsOf("addSortMethod")[1].text = "SORT_METHOD_UNSORTED")

\* C22 witness: the fallback was registered although a method had been detected.
C22_Witness ==
    /\ folder_out # NotListed
    /\ folder_out.exc = "none"
    /\ ~folder_in.autosort
    /\ folder_in.manual = {}
    /\ folder_in.detected # {}
    /\ Len(CallsOf("addSortMethod")) = 1

\* The sort methods the listing is to have.
WantedSorts ==
    IF folder_in.autosort THEN folder_in.manual \cup folder_in.detected
    ELSE folder_in.manual

\* C30: the methods registered for a listing are the requested ones united
\* with the detected ones when auto-detection is on, the requested ones alone
\* when it is off, each registered once; "unsorted" is registered iff that set
\* is empty.
C30_SortMethodsRegistered ==
    (folder_out # NotListed /\ folder_out.exc = "none")
    => LET sorts == CallsOf("addSortMethod")
           named == {i \in 1..Len(sorts) : sorts[i].text = ""}
           fallback == {i \in 1..Len(sorts) : sorts[i].text = "SORT_METHOD_UNSORTED"}
       IN  /\ {sorts[i].num : i \in named} = WantedSorts
           /\ Cardinality(named) = Cardinality(WantedSorts)
           /\ fallback # {} <=> WantedSorts = {}
           /\ Cardinality(fallback) <= 1

\* C30 witness: a requested and a detected method were both registered.
C30_Witness ==
    /\ folder_out # NotListed
    /\ folder_in.autosort
    /\ folder_in.manual = {3}
    /\ folder_in.detected = {1}
    /\ Len(CallsOf("addSortMethod")) = 2

\* C23: a string result is submitted as one playable item with that path; a
\* sequence result leaves the host's playlist holding its references in input
\* order and submits the item built from its first element; a ListItem result
\* is submitted as it is.
C23_ResolverShapes ==
    LET res == resolver_in.result
    IN  resolver_out # NotResolved
        => (/\ (res.shape \in {"str", "listitem"} /\ res.url # <<>>)
               => (resolver_out.submitted /\ resolver_out.resolved.path = res.url)
            /\ (res.shape = "list" /\ res.urls # <<>>)
               => (/\ resolver_out.submitted
                   /\ [i \in 1..Len(playlist) |-> playlist[i].url]
                        = [i \in 1..Len(res.urls) |-> res.urls[i].url]
                   /\ resolver_out.resolved.path = res.urls[1].url))

\* C24: a falsy result fails with the "no source found" error, a truthy result
\* of an unsupported shape with the "invalid source" error, and neither
\* submits anything to the host.
C24_ResolutionErrors ==
    LET res == resolver_in.result
    IN  resolver_out # NotResolved
        => (/\ ~IsTruthy(res)
               => (/\ resolver_out.exc = "ValueError"
                   /\ resolver_out.msg = "resolver failed to return url"
                   /\ ~resolver_out.submitted)
            /\ (IsTruthy(res) /\ res.shape = "other")
               => (/\ resolver_out.exc = "ValueError"
                   /\ resolver_out.msg = "resolver returned invalid url"
                   /\ ~resolver_out.submitted))

\* What the second playlist entry's URL is read as by the dispatcher.
LoopTarget == UrlSplit(playlist[2].url)

LoopQuery == ReadQueryText(LoopTarget.query).query

\* C25: after create_loopback in an invocation that is not a loop-back
\* re-entry, the host's playlist holds exactly two entries: the media URL,
\* then a URL of the dispatched route that carries the next-item parameters.
C25_LoopbackQueue ==
    (/\ resolver_in.loop.used
     /\ resolver_in.loop.exc = "none"
     /\ ~StartsWithText(resolver_in.title, LoopMarker))
    => (/\ Len(playlist) = 2
        /\ playlist[1].url = resolver_in.media
        /\ SelectorOf(LoopTarget.path) = selector
        /\ LoopQuery.enc = "blob"
        /\ \A k \in DOMAIN resolver_in.next :
              k \in DOMAIN LoopQuery.blob /\ LoopQuery.blob[k] = resolver_in.next[k])

\* The steps of one dispatch, in the order of the code.
DispatchSteps == <<"parse", "lookup", "instantiate", "handler", "process", "drain">>

\* C26: the steps of one dispatch run in the order parse, lookup, instantiate,
\* handler, finalize, drain, each at most once; the handler runs only after a
\* successful parse and lookup, and no step follows a step that failed.
C26_DispatchStepOrder ==
    (last.op = "dispatch")
    => (/\ IsPrefix(last.trace, DispatchSteps)
        /\ last.called => (last.exc = "none" /\ last.handler # "")
        /\ last.exc # "none" => last.trace = <<"parse">>
        /\ last.caught = "KeyError" => last.trace = <<"parse", "lookup">>
        /\ last.caught = FailureClass("init") => last.trace = SubSeq(DispatchSteps, 1, 3)
        /\ last.caught = FailureClass("body") => last.trace = SubSeq(DispatchSteps, 1, 4)
        /\ last.caught = FailureClass("process") => last.trace = SubSeq(DispatchSteps, 1, 5)
        /\ (last.exc = "none" /\ last.caught = "none") => last.trace = DispatchSteps)

\* C26 witness: a dispatch whose handler raised stopped after the handler step.
C26_Witness ==
    /\ last.op = "dispatch"
    /\ last.caught = FailureClass("body")
    /\ last.called
    /\ last.trace = <<"parse", "lookup", "instantiate", "handler">>

\* C27: the deferred callbacks are invoked only after the results were
\* processed without an exception; a dispatch whose lookup, handler or result
\* processing raised invokes none of them.
C27_DrainOnlyOnSuccess ==
    (last.op = "dispatch")
    => (/\ (InTrace("drain") \/ last.ran # <<>>)
           => (InTrace("process") /\ last.caught = "none" /\ last.exc = "none")
        /\ (last.caught # "none" \/ last.exc # "none")
           => (last.ran = <<>> /\ last.errors = 0 /\ ~InTrace("drain")))

\* C27 witness: a handler scheduled a callable and then raised; the callable
\* is queued and was not invoked.
C27_Witness ==
    /\ last.op = "dispatch"
    /\ last.caught = FailureClass("body")
    /\ metacalls # <<>>
    /\ last.ran = <<>>

\* C28: no deferred entry is executed by two dispatches: a dispatch that drains
\* after a dispatch that drained does not find the entries of that one.
C28_DeferredRunOnce ==
    [][(/\ op_count' # op_count
        /\ last.op = "dispatch"
        /\ InTrace("drain")
        /\ last'.op = "dispatch"
        /\ last'.ran # <<>>)
       => (metacalls = <<>> \/ ~IsPrefix(metacalls, last'.ran))]_vars

\* C29: a test call leaves the selector, the parameter set, the sort-method
\* accumulator and the debug buffer in their reset state on every exit path,
\* an exception while the controller is instantiated included.
C29_TestCallResetsOnEveryExit ==
    (last.op = "test")
    => (/\ selector = ROOT
        /\ DOMAIN params = {}
        /\ auto_sort = {}
        /\ Len(debug_msgs) = 0)

\* The positions of the calls of one host API in the listing's calls.
PositionsOf(api) == {i \in 1..Len(folder_out.calls) : folder_out.calls[i].api = api}

\* C31: a successful folder listing seals every truthy item once, skips the
\* falsy placeholders, and submits the tuples in one batch call that keeps the
\* handler's order.
C31_SingleOrderedBatch ==
    (folder_out.exc = "none")
    => (/\ Len(CallsOf("addDirectoryItems")) = 1
        /\ CallsOf("addDirectoryItems")[1].batch
             = SelectSeq(folder_in.items, LAMBDA item : item # "falsy")
        /\ CallsOf("addDirectoryItems")[1].num = SealedCount)

\* C31 witness: a folder item and a video item around a placeholder were
\* submitted as the batch (video, folder).
C31_Witness ==
    /\ folder_out.exc = "none"
    /\ folder_in.items = <<"video", "falsy", "folder">>
    /\ CallsOf("addDirectoryItems")[1].batch = <<"video", "folder">>

\* C36: a successful folder listing calls the host in the order batch of
\* entries, sort methods, end of listing; the end is signalled once, with
\* success, and with the update flag of _updatelisting_ (false when absent)
\* unless the handler assigned it.
C36_ListingCallOrder ==
    (folder_out.exc = "none")
    => (/\ Cardinality(PositionsOf("endOfDirectory")) = 1
        /\ PositionsOf("endOfDirectory") = {Len(folder_out.calls)}
        /\ PositionsOf("addDirectoryItems") = {1}
        /\ PositionsOf("addSortMethod") # {}
        /\ \A i \in PositionsOf("addSortMethod") :
              /\ i > 1
              /\ i < Len(folder_out.calls)
              /\ \A j \in i..(Len(folder_out.calls) - 1) : j \in PositionsOf("addSortMethod")
        /\ CallsOf("endOfDirectory")[1].text = "True"
        /\ CallsOf("endOfDirectory")[1].flag
             = (IF folder_in.changed THEN folder_in.update
                ELSE UpdateListing(folder_in.listing)))

\* C36 witness: the handler assigned update_listing although the parameter
\* was absent, and the listing ended with the update flag set.
C36_Witness ==
    /\ folder_out.exc = "none"
    /\ folder_in.listing = "absent"
    /\ folder_in.changed
    /\ CallsOf("endOfDirectory")[1].flag
    /\ Len(CallsOf("addSortMethod")) = 2

\* C32: a folder or resolver dispatch that fails makes no call that changes
\* what the host displays: no entries added, no end of listing signalled, no
\* resolved reference set.
C32_FailureLeavesHostAlone ==
    /\ (folder_out.exc \notin {"none", "unlisted"}) => folder_out.calls = <<>>
    /\ (resolver_out.exc \notin {"none", "unresolved"})
       => (~resolver_out.submitted /\ resolver_out.resolved = NoItem)

\* C32 witness: a generator raised after it had yielded a list item, and a
\* resolver returned an object of an unsupported type.
C32_Witness ==
    \/ /\ folder_out.exc = FailureClass("body")
       /\ folder_in.items = <<"video", "raise">>
    \/ /\ resolver_out.exc = "ValueError"
       /\ resolver_in.result.shape = "other"
       /\ resolver_in.result.truthy

\* The declared names after the controller's, and how many of them are bound.
DeclaredNames == Tail(rebind_in.argnames)

BoundCount == Min(Len(rebind_in.args), Len(DeclaredNames))

BoundNames == {DeclaredNames[i] : i \in 1..BoundCount}

\* C33: args_to_kwargs binds the i-th positional argument to the (i+1)-th
\* declared name, merges exactly min(arguments, remaining names) pairs into the
\* target, overwrites a key of the same name and leaves every other key alone.
C33_PositionalRebinding ==
    rebind_out.done
    => (/\ \A i \in 1..BoundCount :
              rebind_out.target[rebind_in.argnames[i + 1]] = rebind_in.args[i]
        /\ Cardinality(BoundNames) = BoundCount
        /\ DOMAIN rebind_out.target = DOMAIN rebind_in.target \cup BoundNames
        /\ \A k \in DOMAIN rebind_in.target \ BoundNames :
              rebind_out.target[k] = rebind_in.target[k])

\* C33 witness: three arguments for two declared names; x was in the target
\* and is overwritten, _u_ is kept, the third argument is dropped.
C33_Witness ==
    /\ rebind_out.done
    /\ Len(rebind_in.args) = 3
    /\ rebind_in.argnames = <<"self", X, Y>>
    /\ DOMAIN rebind_in.target = {X, U}
    /\ rebind_out.target[X] = rebind_in.args[1]
    /\ rebind_out.target[X] # rebind_in.target[X]
    /\ DOMAIN rebind_out.target = {X, Y, U}

\* What xbmc.log received during the step, after the record itself.
Replayed(before, after) == SubSeq(after, Len(before) + 2, Len(after))

\* C34: the log handler buffers every debug message in emission order; a
\* critical record emitted while the buffer is not empty is followed by all
\* buffered messages, in order, at warning level between two marker lines;
\* records of other levels neither add to the buffer nor replay it.
C34_DebugReplay ==
    [][(op_count' # op_count /\ log_in'.level # 0)
       => (/\ (log_in'.level = 10) => debug_msgs' = Append(debug_msgs, log_in'.msg)
           /\ (log_in'.level # 10) => debug_msgs' = debug_msgs
           /\ IsPrefix(kodi_log, kodi_log')
           /\ (log_in'.level = 50 /\ debug_msgs # <<>>)
              => Replayed(kodi_log, kodi_log')
                   = <<DebugMarker>>
                     \o [i \in 1..Len(debug_msgs) |-> KodiLine(debug_msgs[i], "LOGWARNING")]
                     \o <<DebugMarker>>
           /\ ~(log_in'.level = 50 /\ debug_msgs # <<>>)
              => Len(kodi_log') <= Len(kodi_log) + 1)]_vars

\* C34 witness: debug messages a and b were buffered and a critical record
\* replayed them as a, b between the markers.
C34_Witness ==
    /\ debug_msgs = <<"a", "b">>
    /\ log_in.level = 50
    /\ Len(kodi_log) = 7
    /\ kodi_log[4] = DebugMarker
    /\ kodi_log[5] = KodiLine("a", "LOGWARNING")
    /\ kodi_log[6] = KodiLine("b", "LOGWARNING")
    /\ kodi_log[7] = DebugMarker

\* The kind of the content id under validation, by its first two characters.
IdKind ==
    CASE ContentCode(uuid_in.contentid) \in {<<"P", "L">>, <<"F", "L">>} -> "playlist"
      [] ContentCode(uuid_in.contentid) = <<"U", "U">> -> "uploads"
      [] ContentCode(uuid_in.contentid) = <<"U", "C">> -> "channel"
      [] OTHER -> "name"

\* C35: validate_uuid follows its table: a playlist id is returned when a
\* playlist is required and is a ValueError otherwise; an uploads id is
\* returned when a playlist is required, maps to its cached channel id
\* otherwise, and is a ValueError without a cached mapping; a channel id is
\* returned when a channel is required and maps to the channel's uploads id
\* otherwise; anything else is a channel name and resolves to the channel id
\* or its uploads id.
C35_ValidateUuidTable ==
    (uuid_out.exc # "unvalidated")
    => (/\ (IdKind \in {"playlist", "uploads"} /\ uuid_in.require_playlist)
           => (uuid_out.exc = "none" /\ uuid_out.ret = uuid_in.contentid)
        /\ (IdKind = "playlist" /\ ~uuid_in.require_playlist)
           => uuid_out.exc = "ValueError"
        /\ (IdKind = "uploads" /\ ~uuid_in.require_playlist)
           => IF uuid_in.contentid \in DOMAIN uuid_in.cache.ref
              THEN uuid_out.exc = "none"
                   /\ uuid_out.ret = uuid_in.cache.ref[uuid_in.contentid]
              ELSE uuid_out.exc = "ValueError"
        /\ (IdKind = "channel" /\ ~uuid_in.require_playlist)
           => (uuid_out.exc = "none" /\ uuid_out.ret = uuid_in.contentid)
        /\ (IdKind = "channel" /\ uuid_in.require_playlist
            /\ (uuid_in.known \/ uuid_in.contentid \in DOMAIN uuid_in.cache.channels))
           => (uuid_out.exc = "none" /\ uuid_out.ret = UU1)
        /\ (IdKind = "name" /\ (uuid_in.known \/ uuid_in.cache \in {c \in ChannelCaches :
                                    BOB \in DOMAIN c.ref /\ UC1 \in DOMAIN c.channels}))
           => (/\ uuid_out.exc = "none"
               /\ uuid_out.ret = IF uuid_in.require_playlist THEN UU1 ELSE UC1))

\* C35 witness: an uploads id with a cached mapping was turned into its
\* channel id.
C35_Witness ==
    /\ uuid_out.exc = "none"
    /\ uuid_in.contentid = UU1
    /\ ~uuid_in.require_playlist
    /\ uuid_out.ret = UC1

\* The title the newest loop-back entry propagates, without its marker.
PropagatedTitle == playlist[Len(playlist)].label.title

Unmarked(t) == SubSeq(t, Len(LoopMarker) + Len(LoopSeparator) + 1, Len(t))

\* C37: over a chain of loop-back re-invocations the marker is applied once
\* (the propagated title never gets a second prefix), only the first
\* invocation, the one without the marker, clears the host's playlist, and
\* every re-entrant invocation appends one loop-back entry and does not add
\* the media entry again.
C37_LoopbackChain ==
    [][(/\ ~resolver_in.loop.used
        /\ resolver_in'.loop.used
        /\ resolver_in'.loop.exc = "none")
       => (/\ StartsWithText(PropagatedTitle', LoopMarker \o LoopSeparator)
           /\ ~StartsWithText(Unmarked(PropagatedTitle'), LoopMarker)
           /\ IF StartsWithText(resolver_in.title, LoopMarker)
              THEN /\ Len(playlist') = Len(playlist) + 1
                   /\ IsPrefix(playlist, playlist')
                   /\ playlist'[Len(playlist')].url # resolver_in.media
                   /\ SelectorOf(UrlSplit(playlist'[Len(playlist')].url).path) = selector
              ELSE /\ Len(playlist') = 2
                   /\ playlist'[1].url = resolver_in.media)]_vars

\* C37 witness: the second re-invocation of a chain has appended its entry:
\* the media entry of the first invocation and three loop-back entries.
C37_Witness ==
    /\ op_count = 2
    /\ resolver_in.loop.used
    /\ resolver_in.loop.exc = "none"
    /\ Len(playlist) = 4
    /\ playlist[1].url = <<"1">>
    /\ PropagatedTitle = LoopMarker \o LoopSeparator \o <<"T">>

\* The queue a drain starts with in the operation that leads to the next
\* state: what was queued before, then what the handler body scheduled.
QueuedAtDrain == metacalls \o last'.sched

Drains == \E i \in 1..Len(last'.trace) : last'.trace[i] = "drain"

\* C38: a test call with execute_delayed runs the scheduled callbacks after
\* the handler and before the reset, also when the handler raised; without
\* execute_delayed the reset discards them unexecuted.
C38_TestCallDelayed ==
    [][(op_count' # op_count /\ last'.op = "test" /\ last'.called)
       => (/\ metacalls' = <<>>
           /\ IF Drains
              THEN /\ last'.trace = <<"instantiate", "handler", "drain", "reset">>
                   /\ IsPrefix(QueuedAtDrain, last'.ran)
              ELSE /\ last'.trace = <<"instantiate", "handler", "reset">>
                   /\ last'.ran = <<>>)]_vars

\* C38 witness: a handler scheduled a callable and raised; with
\* execute_delayed the callable ran and the queue is empty afterwards.
C38_Witness ==
    /\ last.op = "test"
    /\ last.exc = FailureClass("body")
    /\ last.sched # <<>>
    /\ last.ran = last.sched
    /\ metacalls = <<>>

\* How many entries the callables of a queue append while it is drained: one
\* for each scheduling callable, as far as the queue has room.
AppendedBy(queue) ==
    Min(Cardinality({i \in 1..Len(queue) : queue[i] = "sched"}), MaxQueue - Len(queue))

\* C39: a callback scheduled by a deferred callback during a drain is run in
\* that drain, after every entry queued before it, and the drain comes to an
\* end.
C39_ScheduledDuringDrain ==
    [][(op_count' # op_count /\ last'.op = "dispatch" /\ Drains)
       => (/\ IsPrefix(QueuedAtDrain, last'.ran)
           /\ Len(last'.ran) = Len(QueuedAtDrain) + AppendedBy(QueuedAtDrain)
           /\ \A i \in (Len(QueuedAtDrain) + 1)..Len(last'.ran) : last'.ran[i] = "ok"
           /\ last'.trace[Len(last'.trace)] = "drain")]_vars

\* C39 witness: the callable a deferred callback scheduled ran right after it.
C39_Witness ==
    /\ last.op = "dispatch"
    /\ last.sched = <<"sched">>
    /\ last.ran = <<"sched", "ok">>

\* C40: in a test call of a generator handler the result is materialised
\* before the reset: the handler body runs with the selector and the
\* parameters of the call in place, and the reset comes after it.
C40_GeneratorBeforeReset ==
    (last.op = "test" /\ last.called /\ last.lazy)
    => (/\ last.body.selector = handler_route[last.handler].path
        /\ \A k \in DOMAIN last.kwargs :
              k \in DOMAIN last.body.params /\ last.body.params[k] = last.kwargs[k]
        /\ \E i, j \in 1..Len(last.trace) :
              i < j /\ last.trace[i] = "handler" /\ last.trace[j] = "reset"
        /\ selector = ROOT
        /\ metacalls = <<>>)

\* C40 witness: a generator handler called with y = 2 scheduled a callable
\* while it was materialised and found y among the parameters.
C40_Witness ==
    /\ last.op = "test"
    /\ last.lazy
    /\ last.sched # <<>>
    /\ Y \in DOMAIN last.body.params
    /\ DOMAIN params = {}

====
